---- MODULE Spec2Model ----
(***************************************************************************)
(* Model of the command palette: the fuzzy ranking engine                  *)
(* (src/features/commandPalette/utils/fuzzySearch.ts), the                 *)
(* useCommandPalette hook, hydrateCommands, the App and CommandPalette     *)
(* components, the legacy search of command-palette/utils/fuzzy.ts, the    *)
(* focus trap and the ToastProvider.                                       *)
(*                                                                         *)
(* Strings are sequences of one-character strings; numbers are exact       *)
(* rationals [num, den] in lowest terms with den > 0 (the code computes    *)
(* in IEEE doubles; rounding is not modelled).                             *)
(***************************************************************************)
EXTENDS Integers, Sequences, FiniteSets, TLC

VARIABLES
    commands,          \* the caller's commands array
    indexedCommands,   \* <<>> or <<index>>: the precomputed index passed in config
    call,              \* the arguments of the last searchCommands call
    result,            \* the list it returned
    pc,                \* "start" | "returned"
    defaultWeights,    \* the module-level DEFAULT_WEIGHTS object
    first,             \* <<>> or <<r>>: an earlier call kept for comparison
    isOpen,            \* useCommandPalette: the isOpen prop of the last render
    queryState,        \* useCommandPalette: the query state the last render read
    activeIndex,       \* useCommandPalette: the activeIndex state the last render read
    onExecute,         \* useCommandPalette: whether onExecute is provided
    options,           \* useCommandPalette: <<>> or <<resultLimit>>
    resultsMemo,       \* useCommandPalette: the results memo of the last render
    nextQuery,         \* useCommandPalette: the query state with the queued updates applied
    nextIndex,         \* useCommandPalette: the activeIndex state with the queued updates applied
    batch,             \* the operations called since the last render, and those it applied
    op,                \* the hook operation called last
    trace,             \* the calls that operation made, in order
    handlerRegistry,   \* hydrateCommands: own keys of the registry object -> factory
    configs,           \* the configs passed to the last hydrateCommands call
    hydrated,          \* what that call returned or threw
    lastRegistered,    \* the factory of the latest registerHandler call, per type
    scored,            \* the last scoreTokenAgainstCandidate call and its value
    focused,           \* where the keyboard focus is while the App is on screen
    alternateLanes,    \* the fiber of CommandPalette that is not on screen still
                       \* carries the lane of an update of the hook's state
    givenCommands,     \* the commands array as a legacy searchCommands call found it
    container,         \* the elements inside the focus trap's container, in DOM order
    activeElement,     \* document.activeElement: a position in container, 0 outside
                       \* it, -1 the container element itself
    keyEvent,          \* the last keydown event the document received
    trapActive,        \* the focus trap's keydown listener is on the document
    focusFirstQueued,  \* the microtask focusFirst is queued
    previouslyFocused, \* document.activeElement as activateFocusTrap found it
    containerTabindex, \* the container's tabindex attribute, "" when absent
    toasts,            \* ToastProvider's toasts state as rendered last, newest first
    toastUpdates,      \* the setToasts updaters waiting for a render, in call order
    toastMounted,      \* the provider is mounted
    timersRef,         \* timersRef.current: toast id -> timer id
    pendingTimeouts,   \* the timeouts set on window and neither fired nor cleared
    issuedIds,         \* the toast ids generateToastId has returned
    maxToasts,         \* the provider's maxToasts prop
    toastEvent         \* the last thing that happened to the provider

searchVars == <<commands, indexedCommands, call, result, pc>>
hookVars ==
    <<isOpen, queryState, activeIndex, onExecute, options, resultsMemo, nextQuery,
      nextIndex, batch, op, trace>>
hydrateVars == <<handlerRegistry, configs, hydrated, lastRegistered>>
\* The state of the parts modelled on their own.
trapVars ==
    <<container, activeElement, keyEvent, trapActive, focusFirstQueued,
      previouslyFocused, containerTabindex>>
toastVars ==
    <<toasts, toastUpdates, toastMounted, timersRef, pendingTimeouts,
      issuedIds, maxToasts, toastEvent>>
restVars == <<scored, focused, alternateLanes, givenCommands, trapVars, toastVars>>
\* The state outside a single searchCommands call.
notSearch == <<defaultWeights, first, hookVars, hydrateVars, restVars>>
\* The state outside the hook.
notHook == <<searchVars, defaultWeights, first, hydrateVars, restVars>>
vars == <<searchVars, notSearch>>

(***************************************************************************)
(* Bounds                                                                  *)
(***************************************************************************)
MaxCommands == 2
MaxQueryLen == 3
MaxLimit == 1

(***************************************************************************)
(* Rational arithmetic                                                     *)
(***************************************************************************)
Abs(n) == IF n < 0 THEN -n ELSE n

RECURSIVE GCD(_, _)
GCD(a, b) == IF b = 0 THEN a ELSE GCD(b, a % b)

\* The rational n/d (d # 0) in lowest terms with a positive denominator.
Rat(n, d) ==
    LET s == IF d < 0 THEN -1 ELSE 1
        g == GCD(Abs(n), Abs(d))
    IN  [num |-> (s * n) \div g, den |-> (s * d) \div g]

RInt(n) == [num |-> n, den |-> 1]
RAdd(x, y) == Rat(x.num * y.den + y.num * x.den, x.den * y.den)
RSub(x, y) == Rat(x.num * y.den - y.num * x.den, x.den * y.den)
RMul(x, y) == Rat(x.num * y.num, x.den * y.den)
RDivInt(x, n) == Rat(x.num, x.den * n)
RLess(x, y) == x.num * y.den < y.num * x.den
RLeq(x, y) == x.num * y.den <= y.num * x.den

(***************************************************************************)
(* Characters                                                              *)
(***************************************************************************)
IsSpace(c) == c \in {" ", "\t", "\n"}

\* The characters strings are made of here: ASCII and the German sharp s.
\* toLowerCase and toUpperCase map the letters of LowerLetters and UpperLetters
\* to each other, position by position.
LowerLetters ==
    <<"a", "b", "c", "d", "e", "f", "g", "h", "i", "j", "k", "l", "m",
      "n", "o", "p", "q", "r", "s", "t", "u", "v", "w", "x", "y", "z">>
UpperLetters ==
    <<"A", "B", "C", "D", "E", "F", "G", "H", "I", "J", "K", "L", "M",
      "N", "O", "P", "Q", "R", "S", "T", "U", "V", "W", "X", "Y", "Z">>
LowerOf ==
    [c \in {UpperLetters[i] : i \in DOMAIN UpperLetters} |->
        LowerLetters[CHOOSE i \in DOMAIN UpperLetters : UpperLetters[i] = c]]
UpperOf ==
    [c \in {LowerLetters[i] : i \in DOMAIN LowerLetters} |->
        UpperLetters[CHOOSE i \in DOMAIN LowerLetters : LowerLetters[i] = c]]

\* String.prototype.toLowerCase on one character: A-Z become a-z; the sharp s
\* is a lower-case letter already.
ToLowerChar(c) == IF c \in DOMAIN LowerOf THEN LowerOf[c] ELSE c

\* String.prototype.toUpperCase on one character, as the string it becomes:
\* a-z become A-Z; the sharp s has no upper-case character of its own and
\* becomes the two characters "SS".
ToUpperChar(c) ==
    IF c = "ß" THEN <<"S", "S">>
    ELSE IF c \in DOMAIN UpperOf THEN <<UpperOf[c]>>
    ELSE <<c>>

toLowerCase(s) == [i \in 1..Len(s) |-> ToLowerChar(s[i])]

RECURSIVE toUpperCase(_)
toUpperCase(s) ==
    IF s = <<>> THEN <<>> ELSE ToUpperChar(Head(s)) \o toUpperCase(Tail(s))

RECURSIVE TrimStart(_)
TrimStart(s) ==
    IF s # <<>> /\ IsSpace(Head(s)) THEN TrimStart(Tail(s)) ELSE s

RECURSIVE TrimEnd(_)
TrimEnd(s) ==
    IF s # <<>> /\ IsSpace(s[Len(s)]) THEN TrimEnd(SubSeq(s, 1, Len(s) - 1)) ELSE s

\* String.prototype.trim
trim(s) == TrimEnd(TrimStart(s))

\* s.replace(/\s+/g, " "): every maximal run of whitespace becomes one space.
RECURSIVE CollapseSpaces(_)
CollapseSpaces(s) ==
    IF s = <<>> THEN <<>>
    ELSE IF IsSpace(Head(s))
         THEN <<" ">> \o CollapseSpaces(TrimStart(s))
         ELSE <<Head(s)>> \o CollapseSpaces(Tail(s))

\* normalize without trim().
normalize_NoTrim(text) == CollapseSpaces(toLowerCase(text))

\* normalize without the lower-casing.
normalize_NoLowerCase(text) == CollapseSpaces(trim(text))

normalize(text) == CollapseSpaces(trim(toLowerCase(text)))

\* Array.prototype.join(" ") on an array of strings.
RECURSIVE JoinSpace(_)
JoinSpace(words) ==
    IF words = <<>> THEN <<>>
    ELSE IF Len(words) = 1 THEN words[1]
    ELSE words[1] \o <<" ">> \o JoinSpace(Tail(words))

(***************************************************************************)
(* Strings                                                                 *)
(***************************************************************************)
\* String.prototype.startsWith
startsWith(candidate, token) ==
    /\ Len(token) <= Len(candidate)
    /\ SubSeq(candidate, 1, Len(token)) = token

\* String.prototype.includes
includes(candidate, token) ==
    \E i \in 0..(Len(candidate) - Len(token)) :
        SubSeq(candidate, i + 1, i + Len(token)) = token

\* Code-point rank of the characters ids are made of ("." sorts before the letters,
\* as it does under localeCompare).
CharRank(c) ==
    CASE c = "." -> 0
      [] c = "a" -> 1
      [] c = "b" -> 2
      [] c = "c" -> 3
      [] c = "d" -> 4
      [] OTHER -> 5

\* String.prototype.localeCompare on ids of lowercase letters and dots:
\* negative, zero or positive.
RECURSIVE localeCompare(_, _)
localeCompare(a, b) ==
    IF a = <<>> /\ b = <<>> THEN 0
    ELSE IF a = <<>> THEN -1
    ELSE IF b = <<>> THEN 1
    ELSE IF CharRank(Head(a)) < CharRank(Head(b)) THEN -1
    ELSE IF CharRank(Head(a)) > CharRank(Head(b)) THEN 1
    ELSE localeCompare(Tail(a), Tail(b))

\* query.split(/\s+/): the pieces between whitespace runs, empty pieces included.
RECURSIVE SplitSpaces(_)
SplitSpaces(s) ==
    IF \A i \in 1..Len(s) : ~IsSpace(s[i]) THEN <<s>>
    ELSE LET i == CHOOSE k \in 1..Len(s) :
                      IsSpace(s[k]) /\ \A j \in 1..(k - 1) : ~IsSpace(s[j])
         IN  <<SubSeq(s, 1, i - 1)>> \o SplitSpaces(TrimStart(SubSeq(s, i, Len(s))))

NonEmptyString(t) == t # <<>>

tokenize(query) ==
    LET pieces == SplitSpaces(query)
        trimmed == [i \in 1..Len(pieces) |-> trim(pieces[i])]
    IN  SelectSeq(trimmed, NonEmptyString)

(***************************************************************************)
(* Weights                                                                 *)
(***************************************************************************)
WeightFields ==
    {"titleWeight", "keywordWeight", "prefixScore", "substringScore",
     "maxSubsequenceScore", "coverageWeight", "relevanceWeight"}

DEFAULT_WEIGHTS ==
    [titleWeight |-> Rat(7, 10),
     keywordWeight |-> Rat(3, 10),
     prefixScore |-> Rat(1, 1),
     substringScore |-> Rat(8, 10),
     maxSubsequenceScore |-> Rat(6, 10),
     coverageWeight |-> Rat(15, 100),
     relevanceWeight |-> Rat(85, 100)]

\* { ...DEFAULT_WEIGHTS, ...(config?.weights ?? {}) }
MergeWeights(override) ==
    [f \in WeightFields |->
        IF f \in DOMAIN override THEN override[f] ELSE DEFAULT_WEIGHTS[f]]

\* clamp01 without its upper bound.
clamp01_NoUpperBound(value) ==
    IF RLess(value, RInt(0)) THEN RInt(0) ELSE value

clamp01(value) ==
    IF RLess(value, RInt(0)) THEN RInt(0)
    ELSE IF RLess(RInt(1), value) THEN RInt(1)
    ELSE value

(***************************************************************************)
(* Index                                                                   *)
(***************************************************************************)
IndexCommand(command) ==
    [command |-> command,
     normalizedTitle |-> normalize(command.title),
     normalizedKeywords |-> normalize(JoinSpace(command.keywords))]

HasKeywords(command) == command.keywords # <<>>

\* An index that leaves out the commands without keywords.
buildCommandIndex_SkipNoKeywords(cmds) ==
    LET kept == SelectSeq(cmds, HasKeywords)
    IN  [i \in 1..Len(kept) |-> IndexCommand(kept[i])]

buildCommandIndex(cmds) == [i \in 1..Len(cmds) |-> IndexCommand(cmds[i])]

(***************************************************************************)
(* Scoring                                                                 *)
(***************************************************************************)
\* The scan loop of scoreSubsequence; i, tokenIdx and firstMatchIndex are 0-based
\* as in the code.
RECURSIVE SubsequenceScan(_, _, _, _, _)
SubsequenceScan(token, candidate, i, tokenIdx, firstMatchIndex) ==
    IF ~(i < Len(candidate) /\ tokenIdx < Len(token))
    THEN [tokenIdx |-> tokenIdx, firstMatchIndex |-> firstMatchIndex]
    ELSE IF candidate[i + 1] = token[tokenIdx + 1]
         THEN SubsequenceScan(token, candidate, i + 1, tokenIdx + 1,
                              IF firstMatchIndex = -1 THEN i ELSE firstMatchIndex)
         ELSE SubsequenceScan(token, candidate, i + 1, tokenIdx, firstMatchIndex)

\* The position factor counting positions from one.
PositionFactor_OneBased(firstMatchIndex, candidate) ==
    RSub(RInt(1), Rat(firstMatchIndex + 1, Len(candidate)))

PositionFactor(firstMatchIndex, candidate) ==
    RSub(RInt(1), Rat(firstMatchIndex, Len(candidate)))

\* scoreSubsequence returning the position factor without scaling it by maxScore.
scoreSubsequence_NoCap(token, candidate, maxScore) ==
    IF token = <<>> THEN RInt(0)
    ELSE IF Len(token) > Len(candidate) THEN RInt(0)
    ELSE LET scan == SubsequenceScan(token, candidate, 0, 0, -1)
         IN  IF scan.tokenIdx # Len(token) THEN RInt(0)
             ELSE IF scan.firstMatchIndex = -1 THEN RInt(0)
             ELSE clamp01(PositionFactor(scan.firstMatchIndex, candidate))

scoreSubsequence(token, candidate, maxScore) ==
    IF token = <<>> THEN RInt(0)
    ELSE IF Len(token) > Len(candidate) THEN RInt(0)
    ELSE LET scan == SubsequenceScan(token, candidate, 0, 0, -1)
         IN  IF scan.tokenIdx # Len(token) THEN RInt(0)
             ELSE IF scan.firstMatchIndex = -1 THEN RInt(0)
             ELSE RMul(clamp01(PositionFactor(scan.firstMatchIndex, candidate)),
                       maxScore)

\* scoreTokenAgainstCandidate testing the substring rule before the prefix rule.
scoreTokenAgainstCandidate_SubstringFirst(token, candidate, weights) ==
    IF token = <<>> THEN RInt(0)
    ELSE IF candidate = <<>> THEN RInt(0)
    ELSE IF includes(candidate, token) THEN weights.substringScore
    ELSE IF startsWith(candidate, token) THEN weights.prefixScore
    ELSE scoreSubsequence(token, candidate, weights.maxSubsequenceScore)

scoreTokenAgainstCandidate(token, candidate, weights) ==
    IF token = <<>> THEN RInt(0)
    ELSE IF candidate = <<>> THEN RInt(0)
    ELSE IF startsWith(candidate, token) THEN weights.prefixScore
    ELSE IF includes(candidate, token) THEN weights.substringScore
    ELSE scoreSubsequence(token, candidate, weights.maxSubsequenceScore)

\* scoreToken with the two field weights exchanged.
scoreToken_WeightsSwapped(token, indexed, weights) ==
    clamp01(RAdd(RMul(scoreTokenAgainstCandidate(token, indexed.normalizedTitle, weights),
                      weights.keywordWeight),
                 RMul(scoreTokenAgainstCandidate(token, indexed.normalizedKeywords, weights),
                      weights.titleWeight)))

scoreToken(token, indexed, weights) ==
    LET titleScore ==
            scoreTokenAgainstCandidate(token, indexed.normalizedTitle, weights)
        keywordScore ==
            scoreTokenAgainstCandidate(token, indexed.normalizedKeywords, weights)
        combined ==
            RAdd(RMul(titleScore, weights.titleWeight),
                 RMul(keywordScore, weights.keywordWeight))
    IN  clamp01(combined)

\* The for-loop of scoreQueryTokens: matchedTokens and sum after the tokens.
RECURSIVE TokenLoop(_, _, _, _, _)
TokenLoop(tokens, indexed, weights, matchedTokens, sum) ==
    IF tokens = <<>> THEN [matchedTokens |-> matchedTokens, sum |-> sum]
    ELSE LET s == scoreToken(Head(tokens), indexed, weights)
         IN  TokenLoop(Tail(tokens), indexed, weights,
                       IF RLess(RInt(0), s) THEN matchedTokens + 1 ELSE matchedTokens,
                       RAdd(sum, s))

FinalScore(avg, coverage, weights) ==
    RAdd(RMul(avg, weights.relevanceWeight), RMul(coverage, weights.coverageWeight))

scoreQueryTokens(tokens, indexed, weights) ==
    IF Len(tokens) = 0 THEN RInt(0)
    ELSE LET loop == TokenLoop(tokens, indexed, weights, 0, RInt(0))
             avg == RDivInt(loop.sum, Len(tokens))
             coverage == Rat(loop.matchedTokens, Len(tokens))
         IN  clamp01(FinalScore(avg, coverage, weights))

(***************************************************************************)
(* Arrays.  An array value carries the identity of the array object it is  *)
(* (the caller's array or a fresh one), so that an in-place sort shows on  *)
(* the object it was applied to.                                           *)
(***************************************************************************)
CallerArray(elems) == [ref |-> "caller", elems |-> elems]

\* The spread left out: the array itself instead of a copy.
SpreadCopy_Alias(arr) == arr

\* [...commands]: a fresh array with the same elements.
SpreadCopy(arr) == [ref |-> "fresh", elems |-> arr.elems]

\* (a, b) => a.id.localeCompare(b.id)
CompareById(a, b) == localeCompare(a.id, b.id)

\* The comparator without its tie-break on id.
CompareResults_NoTieBreak(a, b) ==
    IF a.score # b.score
    THEN (IF RLess(a.score, b.score) THEN 1 ELSE -1)
    ELSE 0

\* The comparator of the non-empty path: score descending, then id ascending.
CompareResults(a, b) ==
    IF a.score # b.score
    THEN (IF RLess(a.score, b.score) THEN 1 ELSE -1)
    ELSE localeCompare(a.command.id, b.command.id)

\* Array.prototype.sort is stable: an element goes after those it does not precede.
RECURSIVE InsertById(_, _)
InsertById(sorted, x) ==
    IF sorted = <<>> THEN <<x>>
    ELSE IF CompareById(Head(sorted), x) <= 0
         THEN <<Head(sorted)>> \o InsertById(Tail(sorted), x)
         ELSE <<x>> \o sorted

RECURSIVE SortById(_)
SortById(elems) ==
    IF elems = <<>> THEN <<>>
    ELSE InsertById(SortById(SubSeq(elems, 1, Len(elems) - 1)), elems[Len(elems)])

RECURSIVE InsertResult(_, _)
InsertResult(sorted, x) ==
    IF sorted = <<>> THEN <<x>>
    ELSE IF CompareResults(Head(sorted), x) <= 0
         THEN <<Head(sorted)>> \o InsertResult(Tail(sorted), x)
         ELSE <<x>> \o sorted

RECURSIVE SortResults(_)
SortResults(rs) ==
    IF rs = <<>> THEN <<>>
    ELSE InsertResult(SortResults(SubSeq(rs, 1, Len(rs) - 1)), rs[Len(rs)])

\* The sort of the empty-query path left out.
ArraySortById_NoSort(arr) == arr

\* arr.sort(byId): sorts the array object in place and returns it.
ArraySortById(arr) == [ref |-> arr.ref, elems |-> SortById(arr.elems)]

\* elems.slice(0, limit); limit is <<>> (undefined) or <<n>> with n >= 0.
\* slice(0, limit + 1): one entry too many.
SliceLimit_OneMore(elems, limit) ==
    IF limit = <<>> THEN elems
    ELSE SubSeq(elems, 1, IF limit[1] + 1 < Len(elems) THEN limit[1] + 1 ELSE Len(elems))

SliceLimit(elems, limit) ==
    IF limit = <<>> THEN elems
    ELSE SubSeq(elems, 1, IF limit[1] < Len(elems) THEN limit[1] ELSE Len(elems))

ZeroScored(command) == [command |-> command, score |-> RInt(0)]

\* The empty-query path: the array that was sorted and the list returned.
EmptyQueryPath(cmds, limit) ==
    LET sorted == ArraySortById(SpreadCopy(CallerArray(cmds)))
        sliced == SliceLimit(sorted.elems, limit)
    IN  [results |-> [i \in 1..Len(sliced) |-> ZeroScored(sliced[i])],
         commandsAfter |-> IF sorted.ref = "caller" THEN sorted.elems ELSE cmds]

\* The filter keeping zero scores (>= instead of >).
PositiveScore_KeepZero(r) == RLeq(RInt(0), r.score)

PositiveScore(r) == RLess(RInt(0), r.score)

ScoreAll(tokens, indexedCmds, weights) ==
    [i \in 1..Len(indexedCmds) |->
        [command |-> indexedCmds[i].command,
         score |-> scoreQueryTokens(tokens, indexedCmds[i], weights)]]

\* The non-empty path rebuilding the index whatever the caller supplied.
NonEmptyQueryPath_IgnoreIndex(normalizedQuery, cmds, limit, config) ==
    LET weights == MergeWeights(config.weights)
        tokens == tokenize(normalizedQuery)
        results == SortResults(SelectSeq(ScoreAll(tokens, buildCommandIndex(cmds),
                                                  weights),
                                         PositiveScore))
    IN  [results |-> IF Len(tokens) = 0 THEN <<>>
                     ELSE IF limit # <<>> THEN SliceLimit(results, limit)
                     ELSE results,
         commandsAfter |-> cmds]

\* The non-empty path applying the limit only when it built the index itself.
NonEmptyQueryPath_IndexSkipsLimit(normalizedQuery, cmds, limit, config) ==
    LET weights == MergeWeights(config.weights)
        tokens == tokenize(normalizedQuery)
        indexedCmds == IF config.indexedCommands # <<>>
                       THEN config.indexedCommands[1]
                       ELSE buildCommandIndex(cmds)
        results == SortResults(SelectSeq(ScoreAll(tokens, indexedCmds, weights),
                                         PositiveScore))
    IN  [results |-> IF Len(tokens) = 0 THEN <<>>
                     ELSE IF limit # <<>> /\ config.indexedCommands = <<>>
                          THEN SliceLimit(results, limit)
                     ELSE results,
         commandsAfter |-> cmds]

\* The non-empty path; map and filter build fresh arrays, so the sort touches
\* neither the caller's array nor the supplied index.
NonEmptyQueryPath(normalizedQuery, cmds, limit, config) ==
    LET weights == MergeWeights(config.weights)
        tokens == tokenize(normalizedQuery)
        indexedCmds == IF config.indexedCommands # <<>>
                       THEN config.indexedCommands[1]
                       ELSE buildCommandIndex(cmds)
        results == SortResults(SelectSeq(ScoreAll(tokens, indexedCmds, weights),
                                         PositiveScore))
    IN  [results |-> IF Len(tokens) = 0 THEN <<>>
                     ELSE IF limit # <<>> THEN SliceLimit(results, limit)
                     ELSE results,
         commandsAfter |-> cmds]

\* searchCommands(query, commands, limit, config): the list returned and the
\* caller's commands array as the call leaves it.
searchCommands(query, cmds, limit, config) ==
    LET normalizedQuery == normalize(query)
    IN  IF normalizedQuery = <<>>
        THEN EmptyQueryPath(cmds, limit)
        ELSE NonEmptyQueryPath(normalizedQuery, cmds, limit, config)

(***************************************************************************)
(* Inputs                                                                  *)
(***************************************************************************)
\* Commands callers search over: ids are unique, titles and keywords carry
\* upper case and stray whitespace.
CommandPool ==
    { [id |-> <<"b">>, title |-> <<" ", "A", "B", " ">>, keywords |-> <<>>],
      [id |-> <<"a">>, title |-> <<"c", "a", "b">>, keywords |-> << <<"B">> >>],
      [id |-> <<"c">>, title |-> <<"C", "a", " ", " ", "c", "b">>, keywords |-> <<>>],
      [id |-> <<"a", ".", "b">>, title |-> <<"c">>,
       keywords |-> << <<"a">>, <<"C">> >>] }

RECURSIVE SeqsUpTo(_, _)
SeqsUpTo(S, n) ==
    IF n = 0 THEN {<<>>}
    ELSE LET shorter == SeqsUpTo(S, n - 1)
         IN  shorter \cup {Append(s, x) : s \in shorter, x \in S}

NoRepeat(s) == \A i, j \in 1..Len(s) : i # j => s[i] # s[j]

CommandLists == {s \in SeqsUpTo(CommandPool, MaxCommands) : NoRepeat(s)}

QueryChars == {"a", "B", " "}
Queries == SeqsUpTo(QueryChars, MaxQueryLen)

Limits == {<<>>} \cup {<<n>> : n \in 0..MaxLimit}

NoOverride == [f \in {} |-> RInt(0)]

WeightOverrides ==
    { NoOverride,
      [titleWeight |-> Rat(-1, 1), keywordWeight |-> Rat(2, 1),
       prefixScore |-> Rat(3, 1)],
      [coverageWeight |-> Rat(0, 1), relevanceWeight |-> Rat(1, 1)] }

(***************************************************************************)
(* State machine: a caller holds a commands array, may build an index of   *)
(* it, and calls searchCommands once.                                      *)
(***************************************************************************)
NoCall == [query |-> <<>>, limit |-> <<>>, weights |-> NoOverride]

\* No hook operation has been called.
NoOp ==
    [name |-> "", delta |-> 0, id |-> <<>>, key |-> "", outcome |-> "return",
     prevQuery |-> <<>>, prevIndex |-> 0]

\* No operation is waiting for a render, and the last render had none to apply.
NoBatch == [calls |-> 0, applied |-> 0]

\* No palette is mounted.
HookIdle ==
    /\ isOpen = FALSE
    /\ queryState = <<>>
    /\ activeIndex = 0
    /\ onExecute = FALSE
    /\ options = <<>>
    /\ resultsMemo = <<>>
    /\ nextQuery = <<>>
    /\ nextIndex = 0
    /\ batch = NoBatch
    /\ op = NoOp
    /\ trace = <<>>

\* The registry as the module defines it; hydrateCommands not called yet.
NotHydrated == [threw |-> FALSE, error |-> <<>>, commands |-> <<>>]
HydrateIdle ==
    /\ handlerRegistry = [type \in {"toast"} |-> "toastFactory"]
    /\ configs = <<>>
    /\ hydrated = NotHydrated
    /\ lastRegistered = [type \in {} |-> ""]

NotScored == <<>>
\* Nothing has happened in the parts modelled on their own.
TrapIdle ==
    /\ container = <<>>
    /\ activeElement = 0
    /\ keyEvent = <<>>
    /\ trapActive = FALSE
    /\ focusFirstQueued = FALSE
    /\ previouslyFocused = 0
    /\ containerTabindex = ""

\* No ToastProvider is mounted.
ToastIdle ==
    /\ toasts = <<>>
    /\ toastUpdates = <<>>
    /\ toastMounted = FALSE
    /\ timersRef = <<>>
    /\ pendingTimeouts = {}
    /\ issuedIds = {}
    /\ maxToasts = 0
    /\ toastEvent = <<>>

\* Nothing has happened outside the scoring call.
UnscoredIdle ==
    /\ focused = "outside"
    /\ alternateLanes = FALSE
    /\ givenCommands = <<>>
    /\ TrapIdle
    /\ ToastIdle

RestIdle ==
    /\ scored = NotScored
    /\ UnscoredIdle

NotSearchIdle ==
    /\ defaultWeights = DEFAULT_WEIGHTS
    /\ first = <<>>
    /\ HookIdle
    /\ HydrateIdle
    /\ RestIdle

Init ==
    /\ commands \in CommandLists
    /\ indexedCommands = <<>>
    /\ call = NoCall
    /\ result = <<>>
    /\ pc = "start"
    /\ NotSearchIdle

\* The caller precomputes the index of its commands (useCommandPalette does).
BuildIndex ==
    /\ pc = "start"
    /\ indexedCommands = <<>>
    /\ indexedCommands' = <<buildCommandIndex(commands)>>
    /\ UNCHANGED <<commands, call, result, pc>>
    /\ UNCHANGED notSearch

SearchCommands(query, limit, weights) ==
    /\ pc = "start"
    /\ LET out == searchCommands(query, commands, limit,
                                 [indexedCommands |-> indexedCommands,
                                  weights |-> weights])
       IN  /\ result' = out.results
           /\ commands' = out.commandsAfter
    /\ call' = [query |-> query, limit |-> limit, weights |-> weights]
    /\ pc' = "returned"
    /\ UNCHANGED indexedCommands
    /\ UNCHANGED notSearch

Next ==
    \/ BuildIndex
    \/ \E query \in Queries, limit \in Limits, weights \in WeightOverrides :
          SearchCommands(query, limit, weights)

Spec == Init /\ [][Next]_vars

(***************************************************************************)
(* Properties                                                              *)
(***************************************************************************)
Returned == pc = "returned"

NormalizedQuery == normalize(call.query)
Tokens == tokenize(NormalizedQuery)
Weights == MergeWeights(call.weights)
Config == [indexedCommands |-> indexedCommands, weights |-> call.weights]

\* The supplied index, if any, is the index of the commands searched (the
\* validity the data model requires of a cached index).
IndexIsCurrent ==
    indexedCommands = <<>> \/ indexedCommands[1] = buildCommandIndex(commands)

Ids(elems) == [i \in 1..Len(elems) |-> elems[i].id]
ResultCommands == [i \in 1..Len(result) |-> result[i].command]
InResult(c) == \E i \in 1..Len(result) : result[i].command = c
IdsAscending(ids) ==
    \A i \in 1..(Len(ids) - 1) : localeCompare(ids[i], ids[i + 1]) <= 0

\* The score the call's tokens and weights give a command.
QueryScore(c) == scoreQueryTokens(Tokens, IndexCommand(c), Weights)

\* C1: searchCommands never mutates the caller's commands array: whatever the
\* query, limit and index, the array holds the same elements in the same order
\* after the call as before it.
C1_NoMutation == [][pc' = "returned" => commands' = commands]_vars

\* An empty-query call with a supplied index and a limit has returned a sorted
\* list while the caller's array is still out of id order.
C1_Witness ==
    /\ Returned
    /\ NormalizedQuery = <<>>
    /\ call.query # <<>>
    /\ indexedCommands # <<>>
    /\ Len(result) = 2
    /\ IdsAscending(Ids(ResultCommands))
    /\ ~IdsAscending(Ids(commands))

\* C2: for a non-empty query the returned list is ordered by score descending
\* and, among equal scores, by id ascending.
C2_Sorted ==
    (Returned /\ NormalizedQuery # <<>>) =>
        \A i \in 1..(Len(result) - 1) :
            \/ RLess(result[i + 1].score, result[i].score)
            \/ /\ result[i].score = result[i + 1].score
               /\ localeCompare(result[i].command.id, result[i + 1].command.id) <= 0

\* Two commands tie on score and come back in id order, against their input order.
C2_Witness ==
    /\ Returned
    /\ NormalizedQuery # <<>>
    /\ Len(result) = 2
    /\ result[1].score = result[2].score
    /\ result[1].command = commands[2]
    /\ result[2].command = commands[1]

\* C3: for a non-empty query and no limit, a command is in the result if and
\* only if its query score is strictly greater than 0, and it is returned with
\* that score.
C3_FilterIff ==
    (Returned /\ NormalizedQuery # <<>> /\ call.limit = <<>> /\ IndexIsCurrent) =>
        /\ \A i \in 1..Len(commands) :
              InResult(commands[i]) <=> RLess(RInt(0), QueryScore(commands[i]))
        /\ \A i \in 1..Len(result) :
              /\ RLess(RInt(0), result[i].score)
              /\ result[i].score = QueryScore(result[i].command)
              /\ \E j \in 1..Len(commands) : commands[j] = result[i].command

\* One command matched and was returned, the other scored 0 and was left out.
C3_Witness ==
    /\ Returned
    /\ NormalizedQuery # <<>>
    /\ call.limit = <<>>
    /\ Len(commands) = 2
    /\ Len(result) = 1
    /\ \E i \in 1..2 : QueryScore(commands[i]) = RInt(0)

Min(a, b) == IF a < b THEN a ELSE b

\* C4: when the normalized query is empty, every command is returned unfiltered
\* in ascending id order with score 0, truncated to the first `limit` entries
\* when a limit is given.
C4_EmptyQuery ==
    (Returned /\ NormalizedQuery = <<>>) =>
        /\ Len(result) = IF call.limit = <<>> THEN Len(commands)
                         ELSE Min(Len(commands), call.limit[1])
        /\ \A i \in 1..Len(result) :
              /\ result[i].score = RInt(0)
              /\ \E j \in 1..Len(commands) : commands[j] = result[i].command
        /\ \A i, j \in 1..Len(result) : i # j => result[i].command # result[j].command
        /\ IdsAscending(Ids(ResultCommands))
        /\ \A j \in 1..Len(commands) :
              ~InResult(commands[j]) =>
                  \A i \in 1..Len(result) :
                      localeCompare(result[i].command.id, commands[j].id) <= 0

\* A whitespace-only query with limit 1 returned the smallest id of two commands
\* given in descending id order.
C4_Witness ==
    /\ Returned
    /\ call.query # <<>>
    /\ NormalizedQuery = <<>>
    /\ call.limit = <<1>>
    /\ Len(commands) = 2
    /\ Len(result) = 1
    /\ result[1].command = commands[2]

TitleOf(c) == normalize(c.title)
KeywordsOf(c) == normalize(JoinSpace(c.keywords))
\* The two searchable fields of a command: 1 is the title, 2 the keywords.
FieldOf(c, f) == IF f = 1 THEN TitleOf(c) ELSE KeywordsOf(c)

\* t occurs in s as an in-order, not necessarily contiguous, subsequence.
RECURSIVE IsSubsequence(_, _)
IsSubsequence(t, s) ==
    IF t = <<>> THEN TRUE
    ELSE IF s = <<>> THEN FALSE
    ELSE IF Head(t) = Head(s) THEN IsSubsequence(Tail(t), Tail(s))
    ELSE IsSubsequence(t, Tail(s))

RECURSIVE SumTokenScores(_, _)
SumTokenScores(tokens, c) ==
    IF tokens = <<>> THEN RInt(0)
    ELSE RAdd(scoreToken(Head(tokens), IndexCommand(c), Weights),
              SumTokenScores(Tail(tokens), c))

\* The arithmetic mean of the per-token scores, clamped to [0,1].
MeanTokenScore(tokens, c) ==
    clamp01(RDivInt(SumTokenScores(tokens, c), Len(tokens)))

\* C5: for a non-empty token list the query score of a command is the mean of
\* its per-token scores, zero-scoring tokens counted, clamped to [0,1], with no
\* other term contributing.
C5_MeanOnly ==
    (Returned /\ Tokens # <<>> /\ IndexIsCurrent) =>
        \A i \in 1..Len(result) :
            result[i].score = MeanTokenScore(Tokens, result[i].command)

SingleTokenDefaults ==
    /\ Returned
    /\ Len(Tokens) = 1
    /\ call.weights = NoOverride
    /\ call.limit = <<>>
    /\ IndexIsCurrent

RankedBefore(a, b) ==
    \E i, j \in 1..Len(result) :
        result[i].command = a /\ result[j].command = b /\ i < j

HasPrefixField(c, t) == \E f \in 1..2 : startsWith(FieldOf(c, f), t)
SubstringOnly(c, t) ==
    ~HasPrefixField(c, t) /\ \E f \in 1..2 : includes(FieldOf(c, f), t)
SubsequenceOnly(c, t) ==
    /\ \A f \in 1..2 : ~includes(FieldOf(c, f), t)
    /\ \E f \in 1..2 : IsSubsequence(t, FieldOf(c, f))

\* C6 as stated: a command with a field starting with the token is ranked before
\* every command holding the token only as a non-leading substring, which is
\* ranked before every command matching only as a subsequence.
C6_PriorityAnyField ==
    SingleTokenDefaults =>
        \A i, j \in 1..Len(commands) :
            LET a == commands[i]
                b == commands[j]
                t == Tokens[1]
            IN  /\ (HasPrefixField(a, t) /\ SubstringOnly(b, t)) => RankedBefore(a, b)
                /\ (SubstringOnly(a, t) /\ SubsequenceOnly(b, t)) => RankedBefore(a, b)

\* The fields of c the token matches at all.
MatchedFields(c, t) == {f \in 1..2 : IsSubsequence(t, FieldOf(c, f))}
AllPrefix(c, t) ==
    /\ MatchedFields(c, t) # {}
    /\ \A f \in MatchedFields(c, t) : startsWith(FieldOf(c, f), t)
AllSubstring(c, t) ==
    /\ MatchedFields(c, t) # {}
    /\ \A f \in MatchedFields(c, t) :
          ~startsWith(FieldOf(c, f), t) /\ includes(FieldOf(c, f), t)
AllSubsequence(c, t) ==
    /\ MatchedFields(c, t) # {}
    /\ \A f \in MatchedFields(c, t) : ~includes(FieldOf(c, f), t)

\* C6 amended: among commands that match the token in the same fields, one whose
\* matching fields all start with the token is ranked before one whose matching
\* fields hold it only as a non-leading substring, which is ranked before one
\* whose matching fields match it only as a subsequence.
C6_PrioritySameFields ==
    SingleTokenDefaults =>
        \A i, j \in 1..Len(commands) :
            LET a == commands[i]
                b == commands[j]
                t == Tokens[1]
            IN  MatchedFields(a, t) = MatchedFields(b, t) =>
                    /\ (AllPrefix(a, t) /\ AllSubstring(b, t)) => RankedBefore(a, b)
                    /\ (AllSubstring(a, t) /\ AllSubsequence(b, t)) => RankedBefore(a, b)

\* A substring match and a subsequence match, both in the title only, come back
\* in that order against their input order.
C6_Witness ==
    /\ SingleTokenDefaults
    /\ Len(result) = 2
    /\ result[1].command = commands[2]
    /\ result[2].command = commands[1]
    /\ MatchedFields(commands[1], Tokens[1]) = {1}
    /\ MatchedFields(commands[2], Tokens[1]) = {1}
    /\ AllSubstring(commands[2], Tokens[1])
    /\ AllSubsequence(commands[1], Tokens[1])

\* C7: whatever weights override is passed, every returned score is in [0,1].
C7_ScoresInUnitInterval ==
    Returned =>
        \A i \in 1..Len(result) :
            RLeq(RInt(0), result[i].score) /\ RLeq(result[i].score, RInt(1))

\* The combination of the per-field scores of a token, before clamping.
UnclampedTokenScore(t, c) ==
    RAdd(RMul(scoreTokenAgainstCandidate(t, TitleOf(c), Weights), Weights.titleWeight),
         RMul(scoreTokenAgainstCandidate(t, KeywordsOf(c), Weights),
              Weights.keywordWeight))

\* Under a negative title weight and a keyword weight above 1, a returned command
\* whose weighted sum exceeds 1 has score 1.
C7_Witness ==
    /\ Returned
    /\ "titleWeight" \in DOMAIN call.weights
    /\ RLess(Weights.titleWeight, RInt(0))
    /\ Len(Tokens) = 1
    /\ \E i \in 1..Len(result) :
          /\ RLess(RInt(1), UnclampedTokenScore(Tokens[1], result[i].command))
          /\ result[i].score = RInt(1)

\* C8: under default weights the subsequence fallback scores at most 0.6, above 0
\* when the token is a subsequence of the field, and strictly below what any
\* prefix match (1.0) or substring match (0.8) scores.
C8_FallbackBelowSubstring ==
    (Returned /\ call.weights = NoOverride) =>
        \A k \in 1..Len(Tokens), i \in 1..Len(commands), f \in 1..2 :
            LET t == Tokens[k]
                field == FieldOf(commands[i], f)
                s == scoreSubsequence(t, field, Weights.maxSubsequenceScore)
                got == scoreTokenAgainstCandidate(t, field, Weights)
            IN  /\ RLeq(RInt(0), s)
                /\ RLeq(s, Rat(6, 10))
                /\ IsSubsequence(t, field) => RLess(RInt(0), s)
                /\ ~includes(field, t) => got = s
                /\ startsWith(field, t) => (got = RInt(1) /\ RLess(s, got))
                /\ (includes(field, t) /\ ~startsWith(field, t)) =>
                      (got = Rat(8, 10) /\ RLess(s, got))

\* The fallback scored a field whose first matched character is not the first
\* character, next to a field the same token matches as a substring.
C8_Witness ==
    /\ Returned
    /\ call.weights = NoOverride
    /\ Len(Tokens) = 1
    /\ Len(commands) = 2
    /\ ~includes(TitleOf(commands[1]), Tokens[1])
    /\ SubsequenceScan(Tokens[1], TitleOf(commands[1]), 0, 0, -1).firstMatchIndex > 0
    /\ RLess(RInt(0), scoreSubsequence(Tokens[1], TitleOf(commands[1]),
                                       Weights.maxSubsequenceScore))
    /\ ~startsWith(TitleOf(commands[2]), Tokens[1])
    /\ includes(TitleOf(commands[2]), Tokens[1])

\* C9: for a two-token query where one token scores above 0 against a command and
\* the other scores 0, the command's score is strictly below its score for the
\* matching token alone and equals the mean of the two per-token scores.
C9_ZeroTokenHalves ==
    (Returned /\ Len(Tokens) = 2 /\ IndexIsCurrent) =>
        \A i \in 1..Len(result), k \in 1..2 :
            LET c == result[i].command
                t == Tokens[k]
                u == Tokens[3 - k]
            IN  (/\ RLess(RInt(0), scoreToken(t, IndexCommand(c), Weights))
                 /\ scoreToken(u, IndexCommand(c), Weights) = RInt(0)) =>
                    /\ RLess(result[i].score,
                             scoreQueryTokens(<<t>>, IndexCommand(c), Weights))
                    /\ result[i].score = MeanTokenScore(Tokens, c)

SearchAgain(query) == searchCommands(query, commands, call.limit, Config).results

\* q with every whitespace character followed by one more.
RECURSIVE WidenSpaces(_)
WidenSpaces(q) ==
    IF q = <<>> THEN <<>>
    ELSE IF IsSpace(Head(q)) THEN <<Head(q), "\n">> \o WidenSpaces(Tail(q))
    ELSE <<Head(q)>> \o WidenSpaces(Tail(q))

\* Queries that differ from q only in letter case or in leading, trailing or
\* repeated whitespace.
QueryVariants(q) ==
    { toUpperCase(q),
      toLowerCase(q),
      <<" ">> \o q \o <<"\t", " ">>,
      WidenSpaces(q) }

(***************************************************************************)
(* Letter case: searchCommands called once on commands whose titles hold   *)
(* "ss" and the sharp s, with queries of those letters.                    *)
(***************************************************************************)
MaxCaseQueryLen == 2

CaseCommandPool ==
    { [id |-> <<"d">>, title |-> <<"s", "s">>, keywords |-> <<>>],
      [id |-> <<"e">>, title |-> <<"S", "ß">>, keywords |-> <<>>],
      [id |-> <<"b">>, title |-> <<" ", "A", "B", " ">>, keywords |-> <<>>] }
CaseCommandLists == {s \in SeqsUpTo(CaseCommandPool, MaxCommands) : NoRepeat(s)}

CaseQueryChars == {"s", "ß", "B", " "}
CaseQueries == SeqsUpTo(CaseQueryChars, MaxCaseQueryLen)
CaseLimits == {<<>>, <<1>>}

InitCase ==
    /\ commands \in CaseCommandLists
    /\ indexedCommands = <<>>
    /\ call = NoCall
    /\ result = <<>>
    /\ pc = "start"
    /\ NotSearchIdle

NextCase ==
    \/ BuildIndex
    \/ \E query \in CaseQueries, limit \in CaseLimits :
          SearchCommands(query, limit, NoOverride)

SpecCase == InitCase /\ [][NextCase]_vars

\* The queries with the normalized form of q: among the queries callers make,
\* and q in lower case, in upper case, or with whitespace added.
SameNormalForm(q) ==
    {p \in CaseQueries \cup QueryVariants(q) : normalize(p) = normalize(q)}

\* Lower-casing the upper-cased q gives q in lower case: no letter of q has an
\* upper case that is another letter's, or more than one letter.
CaseRoundTrips(q) == toLowerCase(toUpperCase(q)) = toLowerCase(q)

\* C10 as stated: the result depends on the query only through its normalized
\* form: queries q1, q2 with normalize(q1) = normalize(q2) return equal lists;
\* in particular searchCommands(q, R) = searchCommands(toUpper(q), R).
C10_NormalizedQueryOnly ==
    Returned =>
        /\ \A q \in SameNormalForm(call.query) : SearchAgain(q) = result
        /\ SearchAgain(toUpperCase(call.query)) = result

\* C10 amended: queries with equal normalized forms return equal lists; so do q
\* in lower case and q with leading, trailing or repeated whitespace added; so
\* does toUpper(q) when lower-casing it gives q in lower case again.
C10_NormalizedFormOnly ==
    Returned =>
        /\ \A q \in SameNormalForm(call.query) : SearchAgain(q) = result
        /\ \A q \in QueryVariants(call.query) \ {toUpperCase(call.query)} :
              SearchAgain(q) = result
        /\ CaseRoundTrips(call.query) =>
              SearchAgain(toUpperCase(call.query)) = result

\* A query with stray whitespace and a letter that upper-casing changes and
\* lower-casing restores returned matches.
C10_Witness ==
    /\ Returned
    /\ call.query # NormalizedQuery
    /\ toUpperCase(call.query) # call.query
    /\ CaseRoundTrips(call.query)
    /\ \E i \in 1..Len(call.query) : IsSpace(call.query[i])
    /\ result # <<>>

\* The query is the sharp s alone and nothing matched, while the command
\* titled "ss" is among the commands and matches the upper-cased query "SS".
C10_SharpS ==
    /\ Returned
    /\ call.query = <<"ß">>
    /\ result = <<>>
    /\ \E i \in 1..Len(commands) : commands[i].title = <<"s", "s">>
    /\ SearchAgain(<<"S", "S">>) # <<>>

\* The list the same call returns when no limit is passed.
Unlimited == searchCommands(call.query, commands, <<>>, Config).results

\* The number of commands the call's query matches: all of them for an empty
\* query, those scoring above 0 otherwise.
MatchCount ==
    IF NormalizedQuery = <<>> THEN Len(commands)
    ELSE Cardinality({i \in 1..Len(commands) :
                         RLess(RInt(0), QueryScore(commands[i]))})

\* C11: with a limit >= 0 the result is exactly the first `limit` entries of the
\* result without a limit (all of them when fewer match); without a limit every
\* match is returned.
C11_LimitIsPrefix ==
    (Returned /\ IndexIsCurrent) =>
        /\ call.limit # <<>> =>
              /\ result = SubSeq(Unlimited, 1, Min(call.limit[1], Len(Unlimited)))
              /\ Len(result) <= call.limit[1]
              /\ Len(Unlimited) <= call.limit[1] => result = Unlimited
        /\ call.limit = <<>> => Len(result) = MatchCount

\* A non-empty query matching two commands was cut to its best match by limit 1.
C11_Witness ==
    /\ Returned
    /\ NormalizedQuery # <<>>
    /\ call.limit = <<1>>
    /\ Len(Unlimited) = 2
    /\ Len(result) = 1
    /\ result[1] = Unlimited[1]

(***************************************************************************)
(* Repeated calls: searchCommands called again and again on the same       *)
(* commands, each call with its own query, limit, weights override and     *)
(* choice of passing the precomputed index.                                *)
(***************************************************************************)

\* A weights object: which object it is, and its properties.  The module's
\* DEFAULT_WEIGHTS object with the properties it holds now:
DefaultsObject(fields) == [ref |-> "DEFAULT_WEIGHTS", fields |-> fields]

\* Object.assign(DEFAULT_WEIGHTS, ...): the merge written into the defaults
\* object instead of a new one.
ObjectLiteral_Defaults(defaults) == defaults

\* { ... }: the object literal of the merge creates a new object, empty before
\* its spreads are evaluated.
ObjectLiteral(defaults) == [ref |-> "fresh", fields |-> [f \in {} |-> RInt(0)]]

\* ...source inside an object literal: each own property of source is assigned
\* to the object under construction, over a property of the same name.
SpreadProperties(target, source) ==
    [target EXCEPT !.fields =
        [f \in DOMAIN target.fields \cup DOMAIN source |->
            IF f \in DOMAIN source THEN source[f] ELSE target.fields[f]]]

\* { ...DEFAULT_WEIGHTS, ...(config?.weights ?? {}) }
MergeDefaults(defaults, override) ==
    SpreadProperties(SpreadProperties(ObjectLiteral(defaults), defaults.fields),
                     override)

\* The properties of the defaults object once the merge has built `merged`:
\* those assigned to it if the merge wrote into that very object.
DefaultsAfterMerge(defaults, merged) ==
    IF merged.ref = defaults.ref THEN merged.fields ELSE defaults.fields

\* A command matching "a" only inside its keywords, after another keyword.
KeywordOnlyCommand ==
    [id |-> <<"a", ".", "c">>, title |-> <<"c">>, keywords |-> << <<"C">>, <<"a">> >>]

CallCommandLists ==
    {s \in CommandLists : Len(s) = 2 /\ s[1].id = <<"b">> /\ Len(s[2].keywords) > 0}
    \cup {<<KeywordOnlyCommand, c>> : c \in {d \in CommandPool : d.id = <<"c">>}}
CallQueries == {<<>>, <<"a">>, <<"a", " ", "B">>}
CallLimits == {<<>>, <<1>>}

InitCalls ==
    /\ commands \in CallCommandLists
    /\ indexedCommands = <<>>
    /\ call = NoCall
    /\ result = <<>>
    /\ pc = "start"
    /\ defaultWeights = DEFAULT_WEIGHTS
    /\ first = <<>>
    /\ HookIdle
    /\ HydrateIdle
    /\ RestIdle

\* The arguments of a call as the caller wrote them.
Arguments(cmds, index, c) == [commands |-> cmds, indexedCommands |-> index, call |-> c]

\* One call of searchCommands. `remember` keeps this call for comparison with
\* a later one; a kept call notes whether a call with a weights override
\* followed it.
Call(query, limit, weights, passIndex, remember) ==
    LET index == IF passIndex THEN <<buildCommandIndex(commands)>> ELSE <<>>
        defaults == DefaultsObject(defaultWeights)
        \* an empty query returns before the weights are merged
        merges == normalize(query) # <<>>
        merged == MergeDefaults(defaults, weights)
        out == searchCommands(query, commands, limit,
                              [indexedCommands |-> index,
                               weights |-> merged.fields])
        c == [query |-> query, limit |-> limit, weights |-> weights]
    IN  /\ result' = out.results
        /\ commands' = out.commandsAfter
        /\ indexedCommands' = index
        /\ call' = c
        /\ pc' = "returned"
        /\ defaultWeights' = IF merges THEN DefaultsAfterMerge(defaults, merged)
                             ELSE defaultWeights
        /\ first' = IF remember /\ first = <<>>
                    THEN << [args |-> Arguments(commands, index, c),
                             result |-> out.results,
                             overridden |-> FALSE] >>
                    ELSE IF first # <<>> /\ weights # NoOverride /\ merges
                    THEN << [first[1] EXCEPT !.overridden = TRUE] >>
                    ELSE first
        /\ UNCHANGED <<hookVars, hydrateVars, restVars>>

NextCalls ==
    \E query \in CallQueries, limit \in CallLimits, weights \in WeightOverrides,
       passIndex \in BOOLEAN, remember \in BOOLEAN :
        Call(query, limit, weights, passIndex, remember)

SpecCalls == InitCalls /\ [][NextCalls]_vars

\* The last call has the arguments of the kept call.
SameArguments ==
    /\ Returned
    /\ first # <<>>
    /\ first[1].args = Arguments(commands, indexedCommands, call)

\* C12: searchCommands keeps no state between calls: a call returns the list an
\* earlier call with equal arguments returned, whatever calls were made in
\* between, and a weights override given to one call never changes the weights
\* a later call uses: the defaults object keeps the properties it was defined
\* with, and every call returns what its own arguments give with them.
C12_Stateless ==
    /\ defaultWeights = DEFAULT_WEIGHTS
    /\ SameArguments => result = first[1].result
    /\ Returned => result = searchCommands(call.query, commands, call.limit, Config).results

\* A call without an override repeated after a call that merged an override
\* returned scored matches.
C12_Witness ==
    /\ SameArguments
    /\ first[1].overridden
    /\ call.weights = NoOverride
    /\ result # <<>>
    /\ RLess(RInt(0), result[1].score)

\* The index BuildIndex has just stored is the index of `cmds`: one entry per
\* command, in order, with the command and its two normalized fields.
IsIndexOf(index, cmds) ==
    /\ Len(index) = Len(cmds)
    /\ \A i \in 1..Len(cmds) :
          /\ DOMAIN index[i] = {"command", "normalizedTitle", "normalizedKeywords"}
          /\ index[i].command = cmds[i]
          /\ index[i].normalizedTitle = normalize(cmds[i].title)
          /\ index[i].normalizedKeywords = normalize(JoinSpace(cmds[i].keywords))

\* C13: buildCommandIndex returns one entry per input command, in input order
\* and without filtering, each holding the command, normalize(title) and
\* normalize(keywords joined by one space), and leaves the input array and its
\* commands unchanged.
C13_IndexContract ==
    [][(indexedCommands = <<>> /\ indexedCommands' # <<>>) =>
          /\ commands' = commands
          /\ IsIndexOf(indexedCommands'[1], commands)]_vars

\* An index of two commands: one without keywords, one with two keywords, and
\* a title that normalization changes.
C13_Witness ==
    /\ indexedCommands # <<>>
    /\ Len(indexedCommands[1]) = 2
    /\ \E i \in 1..2 : commands[i].keywords = <<>>
    /\ \E i \in 1..2 :
          /\ Len(commands[i].keywords) = 2
          /\ Len(indexedCommands[1][i].normalizedKeywords) = 3
    /\ \E i \in 1..2 : indexedCommands[1][i].normalizedTitle # commands[i].title

WhitespaceOnly(s) == \A i \in 1..Len(s) : IsSpace(s[i])

\* The strings the call and the index normalize: the query, its variants in
\* case and whitespace, and every title and keyword list of the commands.
NormalizedStrings ==
    {call.query} \cup QueryVariants(call.query)
    \cup {commands[i].title : i \in 1..Len(commands)}
    \cup {JoinSpace(commands[i].keywords) : i \in 1..Len(commands)}

\* C14: normalize is idempotent, normalize(normalize(s)) = normalize(s), and
\* maps the empty string and every whitespace-only string to the empty string.
C14_NormalizeIdempotent ==
    Returned =>
        /\ normalize(<<>>) = <<>>
        /\ \A s \in NormalizedStrings :
              /\ normalize(normalize(s)) = normalize(s)
              /\ WhitespaceOnly(s) => normalize(s) = <<>>

\* A whitespace-only query was normalized to the empty string next to a title
\* that normalization shortens and lower-cases.
C14_Witness ==
    /\ Returned
    /\ Len(call.query) > 1
    /\ WhitespaceOnly(call.query)
    /\ NormalizedQuery = <<>>
    /\ \E i \in 1..Len(commands) :
          /\ TitleOf(commands[i]) # <<>>
          /\ Len(TitleOf(commands[i])) < Len(commands[i].title)
          /\ toLowerCase(commands[i].title) # commands[i].title

\* C15: under default weights and a single-token query, a command matching the
\* token only in its title is ranked strictly before a command matching it,
\* with the same match class (prefix or substring), only in its keywords.
C15_TitleAboveKeywords ==
    SingleTokenDefaults =>
        \A i, j \in 1..Len(commands) :
            LET a == commands[i]
                b == commands[j]
                t == Tokens[1]
            IN  (/\ MatchedFields(a, t) = {1}
                 /\ MatchedFields(b, t) = {2}
                 /\ \/ AllPrefix(a, t) /\ AllPrefix(b, t)
                    \/ AllSubstring(a, t) /\ AllSubstring(b, t)) =>
                    \E k, l \in 1..Len(result) :
                        /\ result[k].command = a
                        /\ result[l].command = b
                        /\ k < l
                        /\ RLess(result[l].score, result[k].score)

\* The token is an inner substring of the second command's title only and of
\* the first command's keywords only, and the second command came back first.
C15_Witness ==
    /\ SingleTokenDefaults
    /\ Len(commands) = 2
    /\ MatchedFields(commands[1], Tokens[1]) = {2}
    /\ MatchedFields(commands[2], Tokens[1]) = {1}
    /\ AllSubstring(commands[1], Tokens[1])
    /\ AllSubstring(commands[2], Tokens[1])
    /\ Len(result) = 2
    /\ result[1].command = commands[2]
    /\ result[2].command = commands[1]

\* The same for the prefix class: the title starts with the token, the other
\* command's keywords start with it.
C15_WitnessPrefix ==
    /\ SingleTokenDefaults
    /\ Len(result) = 2
    /\ MatchedFields(result[1].command, Tokens[1]) = {1}
    /\ MatchedFields(result[2].command, Tokens[1]) = {2}
    /\ AllPrefix(result[1].command, Tokens[1])
    /\ AllPrefix(result[2].command, Tokens[1])

(***************************************************************************)
(* The useCommandPalette hook                                              *)
(* (src/features/commandPalette/hooks/useCommandPalette.ts).               *)
(*                                                                         *)
(* An operation is a callback the last render created: it reads isOpen,    *)
(* commands, results and safeActiveIndex as that render saw them, and it   *)
(* only queues its state updates.  The next render applies the queued      *)
(* updates in order and recomputes the memos; any number of operations may *)
(* be called before it.  The parent owns isOpen: the hook only asks for a  *)
(* change through onOpenChange.  A handler or onExecute is a caller's      *)
(* function and may throw.                                                 *)
(***************************************************************************)
DEFAULT_RESULT_LIMIT == 50

\* The JavaScript % operator: the remainder has the sign of the dividend.
JsRem(a, n) == IF a >= 0 THEN a % n ELSE -((-a) % n)

\* wrapIndex as index % length alone.
wrapIndex_Remainder(index, length) ==
    IF length <= 0 THEN 0 ELSE JsRem(index, length)

wrapIndex(index, length) ==
    IF length <= 0 THEN 0
    ELSE JsRem(JsRem(index, length) + length, length)

resultLimit == IF options = <<>> THEN DEFAULT_RESULT_LIMIT ELSE options[1]

\* The results memo as a render computes it from isOpen and the query.
Render(shown, query) ==
    IF ~shown THEN <<>>
    ELSE searchCommands(query, commands, <<resultLimit>>,
                        [indexedCommands |-> indexedCommands,
                         weights |-> NoOverride]).results

\* The active index exposed as the raw state.
safeActiveIndex_Raw == activeIndex

safeActiveIndex ==
    IF Len(resultsMemo) = 0 THEN 0 ELSE wrapIndex(activeIndex, Len(resultsMemo))

\* A hook operation as called: its name, its argument (delta, id or key), what
\* the caller's functions do when it calls them, and the query and selection
\* the hook returned when it was called.
Operation(name, delta, id, key, outcome) ==
    [name |-> name, delta |-> delta, id |-> id, key |-> key, outcome |-> outcome,
     prevQuery |-> queryState, prevIndex |-> safeActiveIndex]

\* The calls an operation makes.
HandlerCall(id) == [ev |-> "handler", id |-> id, next |-> FALSE]
OnExecuteCall(id) == [ev |-> "onExecute", id |-> id, next |-> FALSE]
ResetStateCall == [ev |-> "resetState", id |-> <<>>, next |-> FALSE]
OnOpenChangeCall(next) == [ev |-> "onOpenChange", id |-> <<>>, next |-> next]

\* What an operation leaves: the two pieces of state as the updates queued so
\* far give them, and the calls it made.
Unchanged(calls) ==
    [queryState |-> nextQuery, activeIndex |-> nextIndex, trace |-> calls]
\* resetState(), after the calls `before` and followed by the calls `after`.
resetState(before, after) ==
    [queryState |-> <<>>, activeIndex |-> 0,
     trace |-> before \o <<ResetStateCall>> \o after]

open == resetState(<<>>, <<OnOpenChangeCall(TRUE)>>)

\* close without resetState().
close_NoReset == Unchanged(<<OnOpenChangeCall(FALSE)>>)

close == resetState(<<>>, <<OnOpenChangeCall(FALSE)>>)

toggle == resetState(<<>>, <<OnOpenChangeCall(~isOpen)>>)

setQuery(next) == [queryState |-> next, activeIndex |-> 0, trace |-> <<>>]

moveActive(delta) ==
    IF ~isOpen THEN Unchanged(<<>>)
    ELSE IF Len(resultsMemo) = 0 THEN Unchanged(<<>>)
    ELSE \* setActiveIndex((prev) => wrapIndex(prev + delta, results.length))
         [queryState |-> nextQuery,
          activeIndex |-> wrapIndex(nextIndex + delta, Len(resultsMemo)),
          trace |-> <<>>]

\* What the caller's functions do when called.
Outcomes == {"return", "handlerThrows", "onExecuteThrows"}

\* executeCommand closing the palette before it runs the handler.
executeCommand_CloseFirst(command, outcome) ==
    IF ~isOpen THEN Unchanged(<<>>)
    ELSE IF command = <<>> THEN Unchanged(<<>>)
    ELSE resetState(<<>>, <<OnOpenChangeCall(FALSE), HandlerCall(command[1].id)>>
                          \o (IF onExecute /\ outcome # "handlerThrows"
                              THEN <<OnExecuteCall(command[1].id)>> ELSE <<>>))

\* executeCommand without the isOpen guard.
executeCommand_NoOpenGuard(command, outcome) ==
    IF command = <<>> THEN Unchanged(<<>>)
    ELSE IF outcome = "handlerThrows"
    THEN Unchanged(<<HandlerCall(command[1].id)>>)
    ELSE IF ~onExecute
    THEN resetState(<<HandlerCall(command[1].id)>>, <<OnOpenChangeCall(FALSE)>>)
    ELSE IF outcome = "onExecuteThrows"
    THEN Unchanged(<<HandlerCall(command[1].id), OnExecuteCall(command[1].id)>>)
    ELSE resetState(<<HandlerCall(command[1].id), OnExecuteCall(command[1].id)>>,
                    <<OnOpenChangeCall(FALSE)>>)

\* executeCommand(command): command is <<>> for undefined, <<c>> for c.
executeCommand(command, outcome) ==
    IF ~isOpen THEN Unchanged(<<>>)
    ELSE IF command = <<>> THEN Unchanged(<<>>)
    ELSE IF outcome = "handlerThrows"
    THEN Unchanged(<<HandlerCall(command[1].id)>>)
    ELSE IF ~onExecute
    THEN resetState(<<HandlerCall(command[1].id)>>, <<OnOpenChangeCall(FALSE)>>)
    ELSE IF outcome = "onExecuteThrows"
    THEN Unchanged(<<HandlerCall(command[1].id), OnExecuteCall(command[1].id)>>)
    ELSE resetState(<<HandlerCall(command[1].id), OnExecuteCall(command[1].id)>>,
                    <<OnOpenChangeCall(FALSE)>>)

\* executeActive always taking the first result.
executeActive_First(outcome) ==
    executeCommand(IF resultsMemo # <<>> THEN <<resultsMemo[1].command>> ELSE <<>>,
                   outcome)

\* results[safeActiveIndex]?.command (the code's index is 0-based)
executeActive(outcome) ==
    executeCommand(IF safeActiveIndex + 1 \in DOMAIN resultsMemo
                   THEN <<resultsMemo[safeActiveIndex + 1].command>>
                   ELSE <<>>,
                   outcome)

\* commands.find((c) => c.id === commandId)
RECURSIVE Find(_, _)
Find(cmds, commandId) ==
    IF cmds = <<>> THEN <<>>
    ELSE IF Head(cmds).id = commandId THEN <<Head(cmds)>>
    ELSE Find(Tail(cmds), commandId)

executeById(commandId, outcome) == executeCommand(Find(commands, commandId), outcome)

onKeyDown(key, outcome) ==
    IF ~isOpen THEN Unchanged(<<>>)
    ELSE CASE key = "Escape" -> close
           [] key = "Enter" -> executeActive(outcome)
           [] key = "ArrowDown" -> moveActive(1)
           [] key = "ArrowUp" -> moveActive(-1)
           [] OTHER -> Unchanged(<<>>)

(***************************************************************************)
(* The hook as a state machine                                             *)
(***************************************************************************)
MaxDelta == 2

ById(id) == CHOOSE c \in CommandPool : c.id = id
HookCommandLists ==
    { <<ById(<<"b">>), ById(<<"a">>), ById(<<"c">>)>>,
      <<ById(<<"a", ".", "b">>), ById(<<"a">>)>>,
      <<ById(<<"c">>)>> }
HookQueries == {<<>>, <<"a">>, <<"B">>, <<"d">>}
HookLimits == {<<>>, <<2>>}
Deltas == (-MaxDelta)..MaxDelta
Keys == {"Escape", "Enter", "ArrowDown", "ArrowUp", "a"}
CommandIds == {c.id : c \in CommandPool} \cup {<<"d">>}

InitHook ==
    /\ commands \in HookCommandLists
    /\ indexedCommands = <<buildCommandIndex(commands)>>
    /\ call = NoCall
    /\ result = <<>>
    /\ pc = "start"
    /\ defaultWeights = DEFAULT_WEIGHTS
    /\ first = <<>>
    /\ isOpen = FALSE
    /\ queryState = <<>>
    /\ activeIndex = 0
    /\ onExecute \in BOOLEAN
    /\ options \in HookLimits
    /\ resultsMemo = <<>>
    /\ nextQuery = <<>>
    /\ nextIndex = 0
    /\ batch = NoBatch
    /\ op = NoOp
    /\ trace = <<>>
    /\ HydrateIdle
    /\ RestIdle

\* The operation `name` of the last render was called and left `after` queued;
\* batch.calls is 1 for the first call since that render and 2 for a later one.
Ran(name, delta, id, key, outcome, after) ==
    /\ op' = Operation(name, delta, id, key, outcome)
    /\ nextQuery' = after.queryState
    /\ nextIndex' = after.activeIndex
    /\ trace' = after.trace
    /\ batch' = [calls |-> IF batch.calls = 0 THEN 1 ELSE 2, applied |-> 0]
    /\ UNCHANGED <<isOpen, queryState, activeIndex, resultsMemo, onExecute, options,
                   notHook>>
Open ==
    /\ TRUE
    /\ Ran("open", 0, <<>>, "", "return", open)

Close ==
    /\ TRUE
    /\ Ran("close", 0, <<>>, "", "return", close)

Toggle ==
    /\ TRUE
    /\ Ran("toggle", 0, <<>>, "", "return", toggle)

SetQuery(next) ==
    /\ next \in HookQueries
    /\ Ran("setQuery", 0, <<>>, "", "return", setQuery(next))

MoveActive(delta) ==
    /\ delta \in Deltas
    /\ Ran("moveActive", delta, <<>>, "", "return", moveActive(delta))

ExecuteActive(outcome) ==
    /\ outcome \in Outcomes
    /\ Ran("executeActive", 0, <<>>, "", outcome, executeActive(outcome))

ExecuteById(commandId, outcome) ==
    /\ outcome \in Outcomes
    /\ Ran("executeById", 0, commandId, "", outcome, executeById(commandId, outcome))

OnKeyDown(key, outcome) ==
    /\ outcome \in Outcomes
    /\ Ran("onKeyDown", 0, <<>>, key, outcome, onKeyDown(key, outcome))

\* A render: the queued updates become the state the hook reads.
Flushed ==
    /\ queryState' = nextQuery
    /\ activeIndex' = nextIndex
    /\ batch' = [calls |-> 0, applied |-> batch.calls]
    /\ UNCHANGED <<nextQuery, nextIndex>>

\* The component re-renders with the props it had, after at least one call.
Rerender ==
    /\ batch.calls > 0
    /\ Flushed
    /\ resultsMemo' = Render(isOpen, nextQuery)
    /\ UNCHANGED <<isOpen, onExecute, options, op, trace, notHook>>

\* The parent re-renders the hook with another isOpen.
SetOpen(next) ==
    /\ isOpen # next
    /\ isOpen' = next
    /\ op' = Operation("setOpen", 0, <<>>, "", "return")
    /\ trace' = <<>>
    /\ Flushed
    /\ resultsMemo' = Render(next, nextQuery)
    /\ UNCHANGED <<onExecute, options, notHook>>

\* The results memo of a render that is given the commands array cmds.
RenderWith(cmds, shown, query) ==
    IF ~shown THEN <<>>
    ELSE searchCommands(query, cmds, <<resultLimit>>,
                        [indexedCommands |-> <<buildCommandIndex(cmds)>>,
                         weights |-> NoOverride]).results

\* The parent re-renders the hook with another commands array; the index memo
\* and the results memo are recomputed.
SetCommands(next) ==
    /\ next \in HookCommandLists
    /\ next # commands
    /\ commands' = next
    /\ indexedCommands' = <<buildCommandIndex(next)>>
    /\ op' = Operation("setCommands", 0, <<>>, "", "return")
    /\ trace' = <<>>
    /\ Flushed
    /\ resultsMemo' = RenderWith(next, isOpen, nextQuery)
    /\ UNCHANGED <<isOpen, onExecute, options>>
    /\ UNCHANGED <<call, result, pc, defaultWeights, first, hydrateVars, restVars>>

NextHook ==
    \/ Open
    \/ Close
    \/ Toggle
    \/ \E next \in HookQueries : SetQuery(next)
    \/ \E delta \in Deltas : MoveActive(delta)
    \/ \E outcome \in Outcomes : ExecuteActive(outcome)
    \/ \E commandId \in CommandIds, outcome \in Outcomes :
          ExecuteById(commandId, outcome)
    \/ \E key \in Keys :
          \E outcome \in IF key = "Enter" THEN Outcomes ELSE {"return"} :
              OnKeyDown(key, outcome)
    \/ Rerender
    \/ \E next \in BOOLEAN : SetOpen(next)
    \/ \E next \in HookCommandLists : SetCommands(next)

SpecHook == InitHook /\ [][NextHook]_vars

(***************************************************************************)
(* Properties of the hook                                                  *)
(***************************************************************************)
\* The operation called last moves the selection by d.
Moves(o, d) ==
    \/ o.name = "moveActive" /\ o.delta = d
    \/ o.name = "onKeyDown" /\ o.key = "ArrowDown" /\ d = 1
    \/ o.name = "onKeyDown" /\ o.key = "ArrowUp" /\ d = -1

\* The step is a call of an operation: the render it was called on is still
\* the last one.
CallStep == batch'.calls > 0

\* The step is the render that applies one call, the operation op, with the
\* props unchanged.
RenderOfOneCall == batch.calls = 1 /\ batch'.applied = 1 /\ op' = op

\* C16: while the palette is open with n > 0 results, moveActive(d) (ArrowDown
\* is +1, ArrowUp is -1) moves the active index to (activeIndex + d) mod n:
\* backward from 0 selects n - 1, forward from n - 1 selects 0.  The call sets
\* the activeIndex state so, n being the number of results of the render it was
\* called on; when it is the only call before the next render, the index the
\* hook returns moves so.
C16_MoveActiveWraps ==
    [][\A d \in Deltas :
          (Moves(op', d) /\ isOpen /\ Len(resultsMemo) > 0) =>
              LET n == Len(resultsMemo)
                  Moved(from, to) ==
                      /\ to \in 0..(n - 1)
                      /\ \E k \in -(MaxDelta + 3)..(MaxDelta + 3) :
                            to = from + d + k * n
                      /\ (from = 0 /\ d = -1) => to = n - 1
                      /\ (from = n - 1 /\ d = 1) => to = 0
              IN  /\ CallStep =>
                         /\ Moved(nextIndex, nextIndex')
                         /\ nextQuery' = nextQuery
                  /\ RenderOfOneCall =>
                         /\ Len(resultsMemo') = n
                         /\ Moved(safeActiveIndex, safeActiveIndex')
                         /\ queryState' = queryState]_vars

\* moveActive(-1) on the first of three results selected the last.
C16_Witness ==
    /\ op.name = "moveActive"
    /\ op.delta = -1
    /\ op.prevIndex = 0
    /\ batch.applied = 1
    /\ isOpen
    /\ Len(resultsMemo) = 3
    /\ safeActiveIndex = 2

\* ArrowDown on the last of three results selected the first.
C16_WitnessForward ==
    /\ op.name = "onKeyDown"
    /\ op.key = "ArrowDown"
    /\ op.prevIndex = 2
    /\ batch.applied = 1
    /\ isOpen
    /\ Len(resultsMemo) = 3
    /\ safeActiveIndex = 0

\* setQuery and moveActive(1) were called before one render: the index moved
\* from 0, by the number of results of the render they were called on.
C16_WitnessBatch ==
    /\ op.name = "moveActive"
    /\ op.delta = 1
    /\ op.prevQuery = <<>>
    /\ batch.applied = 2
    /\ isOpen
    /\ queryState # <<>>
    /\ activeIndex = 1

\* The operation is an execution: executeActive, executeById or the Enter key.
IsExecution(o) ==
    \/ o.name = "executeActive"
    \/ o.name = "executeById"
    \/ o.name = "onKeyDown" /\ o.key = "Enter"

\* The command an execution called in this state targets (none or one):
\* executeById the command of `commands` with that id, executeActive and Enter
\* the result at the active index.
TargetOf(o) ==
    IF o.name = "executeById"
    THEN {commands[i] : i \in {j \in 1..Len(commands) : commands[j].id = o.id}}
    ELSE {resultsMemo[i].command :
             i \in {j \in 1..Len(resultsMemo) : j = safeActiveIndex + 1}}

\* Every function the execution calls returns normally.
Completes(o) ==
    \/ o.outcome = "return"
    \/ o.outcome = "onExecuteThrows" /\ ~onExecute

\* handler, onExecute if provided, resetState, onOpenChange(false).
FullTrace(c) ==
    <<HandlerCall(c.id)>>
    \o (IF onExecute THEN <<OnExecuteCall(c.id)>> ELSE <<>>)
    \o <<ResetStateCall, OnOpenChangeCall(FALSE)>>

\* C17: every execution of a command while the palette is open runs the
\* handler, then onExecute if provided, then resets the query and the active
\* index, then calls onOpenChange(false): after any execution the palette has
\* been asked to close with a cleared query and selection.
C17_ExecutionOrder ==
    [][(CallStep /\ IsExecution(op') /\ isOpen) =>
          \A c \in TargetOf(op') :
              /\ trace' = FullTrace(c)
              /\ nextQuery' = <<>>
              /\ nextIndex' = 0]_vars

\* What executeCommand does, having no try/finally: an execution whose handler
\* and onExecute return makes the four calls in order and leaves the query and
\* selection cleared; when the handler or onExecute throws, the later steps do
\* not run: the query and selection are kept and onOpenChange is not called.
ExecutionOrderOnReturn ==
    [][(CallStep /\ IsExecution(op') /\ isOpen) =>
          \A c \in TargetOf(op') :
              IF Completes(op')
              THEN /\ trace' = FullTrace(c)
                   /\ nextQuery' = <<>>
                   /\ nextIndex' = 0
              ELSE /\ trace' # <<>>
                   /\ trace'[1] = HandlerCall(c.id)
                   /\ \A i \in 1..Len(trace') :
                         trace'[i].ev \notin {"resetState", "onOpenChange"}
                   /\ nextQuery' = nextQuery
                   /\ nextIndex' = nextIndex]_vars

\* executeActive ran all four steps on a palette with a query and a moved
\* selection.
ExecutionCompleted ==
    /\ op.name = "executeActive"
    /\ isOpen
    /\ onExecute
    /\ op.prevQuery # <<>>
    /\ op.prevIndex > 0
    /\ Len(trace) = 4
    /\ trace[3] = ResetStateCall
    /\ trace[4] = OnOpenChangeCall(FALSE)
    /\ batch.applied = 1
    /\ queryState = <<>>
    /\ activeIndex = 0

\* C18: an execution runs the targeted command's handler exactly once and no
\* other handler: executeActive and Enter target the result at the active
\* index, executeById the command of `commands` with that id, in the results or
\* not; no other operation runs a handler.
C18_OnlyTargetHandler ==
    [][LET ran == {i \in 1..Len(trace') : trace'[i].ev = "handler"}
       IN  IF CallStep /\ IsExecution(op') /\ isOpen /\ TargetOf(op') # {}
           THEN /\ Cardinality(ran) = 1
                /\ \A i \in ran : \A c \in TargetOf(op') : trace'[i].id = c.id
           ELSE CallStep => ran = {}]_vars

\* executeById ran the handler of a command that the result limit keeps out of
\* the results.
C18_Witness ==
    /\ op.name = "executeById"
    /\ isOpen
    /\ op.id = <<"c">>
    /\ trace # <<>>
    /\ trace[1] = HandlerCall(<<"c">>)
    /\ Len(commands) = 3
    /\ batch.calls = 1
    /\ resultsMemo # <<>>
    /\ \A i \in 1..Len(resultsMemo) : resultsMemo[i].command.id # <<"c">>

\* Enter ran the handler of the second result.
C18_WitnessEnter ==
    /\ op.name = "onKeyDown"
    /\ op.key = "Enter"
    /\ isOpen
    /\ op.prevIndex = 1
    /\ batch.calls = 1
    /\ trace # <<>>
    /\ trace[1] = HandlerCall(resultsMemo[2].command.id)

\* setQuery and then executeActive were called before the render: the handler
\* of the first result on screen ran, which the new query does not rank first.
C18_WitnessBatch ==
    /\ op.name = "executeActive"
    /\ isOpen
    /\ batch.calls = 2
    /\ queryState = <<>>
    /\ trace # <<>>
    /\ trace[1] = HandlerCall(resultsMemo[1].command.id)
    /\ Render(TRUE, <<"a">>)[1].command.id # resultsMemo[1].command.id

\* C19: Escape while the palette is open resets the query to "" and the active
\* index to 0, calls onOpenChange(false) and runs no handler, whatever the
\* query and selection were.
C19_EscapeClosesAndResets ==
    (op.name = "onKeyDown" /\ op.key = "Escape" /\ isOpen) =>
        /\ nextQuery = <<>>
        /\ nextIndex = 0
        /\ trace = <<ResetStateCall, OnOpenChangeCall(FALSE)>>
        /\ batch.calls = 0 =>
               /\ queryState = <<>>
               /\ safeActiveIndex = 0

\* Escape was pressed on a palette with a query and a moved selection.
C19_Witness ==
    /\ op.name = "onKeyDown"
    /\ op.key = "Escape"
    /\ isOpen
    /\ op.prevQuery # <<>>
    /\ op.prevIndex > 0
    /\ batch.applied = 1
    /\ queryState = <<>>
    /\ safeActiveIndex = 0
    /\ Len(resultsMemo) > 1

(***************************************************************************)
(* hydrateCommands and its handler registry                                *)
(* (commandPalette/utils/hydrateCommands.ts).                              *)
(*                                                                         *)
(* handlerRegistry is an object literal: a lookup by key finds the         *)
(* registered factories and, for the keys it does not own, what the object *)
(* inherits from Object.prototype.                                         *)
(***************************************************************************)
MaxConfigs == 2

\* Keys every object literal inherits (three of them).
ObjectPrototypeKeys == {"toString", "constructor", "__proto__"}

\* handlerRegistry[type]
Lookup(registry, type) ==
    IF type \in DOMAIN registry THEN registry[type]
    ELSE CASE type = "toString" -> "Object.prototype.toString"
           [] type = "constructor" -> "Object"
           [] type = "__proto__" -> "Object.prototype"
           [] OTHER -> "undefined"

NoError == <<>>
Error(name, text, detail) == <<name, text, detail>>

\* What handlerFactory(config.handlerConfig, context) gives for each value a
\* lookup can find: a handler, or the error thrown. A handler records whether
\* it is a function and what made it.
Returns(callable, factory, handlerConfig) ==
    [threw |-> FALSE, error |-> NoError,
     handler |-> <<[callable |-> callable, factory |-> factory, config |-> handlerConfig]>>]
Throws(name, text, detail) ==
    [threw |-> TRUE, error |-> Error(name, text, detail), handler |-> <<>>]

ApplyFactory(factory, handlerConfig) ==
    CASE factory = "toastFactory" ->
            IF handlerConfig.type # "toast"
            THEN Throws("Error", "Invalid handler config for toast handler", "")
            ELSE Returns(TRUE, factory, handlerConfig)
      [] factory = "Object.prototype.toString" ->
            \* returns the string "[object Undefined]"
            Returns(FALSE, factory, handlerConfig)
      [] factory = "Object" ->
            \* returns its first argument, the handlerConfig object
            Returns(FALSE, factory, handlerConfig)
      [] factory = "Object.prototype" ->
            Throws("TypeError", "handlerFactory is not a function", "")
      [] OTHER ->
            \* a factory registered through registerHandler
            Returns(TRUE, factory, handlerConfig)

\* The callback of configs.map.
HydrateOne(config, registry) ==
    LET handlerFactory == Lookup(registry, config.handlerConfig.type)
    IN  IF handlerFactory = "undefined"
        THEN Throws("Error", "Unknown handler type: ", config.handlerConfig.type)
        ELSE LET made == ApplyFactory(handlerFactory, config.handlerConfig)
             IN  IF made.threw THEN made
                 ELSE [threw |-> FALSE, error |-> NoError,
                       handler |-> <<[id |-> config.id,
                                      title |-> config.title,
                                      keywords |-> config.keywords,
                                      shortcut |-> config.shortcut,
                                      description |-> config.description,
                                      handler |-> made.handler[1]]>>]

\* configs.map from left to right; an error thrown by the callback ends the
\* call and no array is returned.
RECURSIVE HydrateFrom(_, _, _)
HydrateFrom(cfgs, registry, done) ==
    IF cfgs = <<>> THEN [threw |-> FALSE, error |-> NoError, commands |-> done]
    ELSE LET one == HydrateOne(Head(cfgs), registry)
         IN  IF one.threw
             THEN [threw |-> TRUE, error |-> one.error, commands |-> <<>>]
             ELSE HydrateFrom(Tail(cfgs), registry, Append(done, one.handler[1]))

hydrateCommands(cfgs, registry) == HydrateFrom(cfgs, registry, <<>>)

\* registerHandler keeping a factory the registry already holds.
registerHandler_KeepExisting(registry, type, factory) ==
    [t \in DOMAIN registry \cup {type} |->
        IF t \in DOMAIN registry THEN registry[t] ELSE factory]

\* handlerRegistry[type] = factory
registerHandler(registry, type, factory) ==
    [t \in DOMAIN registry \cup {type} |-> IF t = type THEN factory ELSE registry[t]]

HandlerTypes == {"toast", "custom", "unknown"} \cup ObjectPrototypeKeys
MakeConfig(id, type, optional) ==
    [id |-> id, title |-> <<"T">> \o id, keywords |-> <<id>>,
     shortcut |-> optional, description |-> optional,
     handlerConfig |-> [type |-> type, message |-> <<"m">>, duration |-> <<>>]]
ConfigPool ==
    {MakeConfig(<<"a">>, type, <<>>) : type \in HandlerTypes}
    \cup {MakeConfig(<<"b">>, "toast", << <<"s">> >>)}
ConfigLists == SeqsUpTo(ConfigPool, MaxConfigs)
RegisteredTypes == {"toast", "custom"}
CustomFactories == {"customFactory", "otherFactory"}

InitHydrate ==
    /\ commands = <<>>
    /\ indexedCommands = <<>>
    /\ call = NoCall
    /\ result = <<>>
    /\ pc = "start"
    /\ defaultWeights = DEFAULT_WEIGHTS
    /\ first = <<>>
    /\ HookIdle
    /\ HydrateIdle
    /\ RestIdle

RegisterHandler(type, factory) ==
    /\ handlerRegistry' = registerHandler(handlerRegistry, type, factory)
    /\ lastRegistered' = [t \in DOMAIN lastRegistered \cup {type} |->
                             IF t = type THEN factory ELSE lastRegistered[t]]
    /\ UNCHANGED <<configs, hydrated, searchVars, defaultWeights, first, hookVars,
                   restVars>>

HydrateCommands(cfgs) ==
    /\ configs' = cfgs
    /\ hydrated' = hydrateCommands(cfgs, handlerRegistry)
    /\ UNCHANGED <<handlerRegistry, lastRegistered, searchVars, defaultWeights, first,
                   hookVars, restVars>>

NextHydrate ==
    \/ \E type \in RegisteredTypes, factory \in CustomFactories :
          RegisterHandler(type, factory)
    \/ \E cfgs \in ConfigLists : HydrateCommands(cfgs)

SpecHydrate == InitHydrate /\ [][NextHydrate]_vars

\* The positions of the configs whose type the registry does not hold.
Unregistered(cfgs, registry) ==
    {i \in 1..Len(cfgs) : cfgs[i].handlerConfig.type \notin DOMAIN registry}

\* The command is the config with its handlerConfig replaced by a handler.
CopiedFrom(command, config) ==
    /\ command.id = config.id
    /\ command.title = config.title
    /\ command.keywords = config.keywords
    /\ command.shortcut = config.shortcut
    /\ command.description = config.description

\* C20: hydrateCommands fails with "Unknown handler type: <type>" as soon as a
\* config names a type that is not in the registry, and then returns no
\* commands; when every type is registered it returns one command per config,
\* in order, with id, title, keywords, shortcut and description copied.
C20_UnknownTypeError ==
    [][(handlerRegistry' = handlerRegistry) =>
          LET unknown == Unregistered(configs', handlerRegistry)
          IN  IF unknown # {}
              THEN LET firstUnknown == CHOOSE i \in unknown : \A j \in unknown : i <= j
                   IN  /\ hydrated'.threw
                       /\ hydrated'.error =
                             Error("Error", "Unknown handler type: ",
                                   configs'[firstUnknown].handlerConfig.type)
                       /\ hydrated'.commands = <<>>
              ELSE /\ ~hydrated'.threw
                   /\ Len(hydrated'.commands) = Len(configs')
                   /\ \A i \in 1..Len(configs') :
                         CopiedFrom(hydrated'.commands[i], configs'[i])]_vars

\* The same for the calls whose configs name no key inherited from
\* Object.prototype: there the error and the copy are as C20 states them.
C20_HoldsOffInheritedKeys ==
    [][(/\ handlerRegistry' = handlerRegistry
        /\ \A i \in 1..Len(configs') :
              configs'[i].handlerConfig.type \notin ObjectPrototypeKeys) =>
          LET unknown == Unregistered(configs', handlerRegistry)
          IN  IF unknown # {}
              THEN LET firstUnknown == CHOOSE i \in unknown : \A j \in unknown : i <= j
                   IN  /\ hydrated'.threw
                       /\ hydrated'.error =
                             Error("Error", "Unknown handler type: ",
                                   configs'[firstUnknown].handlerConfig.type)
                       /\ hydrated'.commands = <<>>
              ELSE /\ ~hydrated'.threw
                   /\ Len(hydrated'.commands) = Len(configs')
                   /\ \A i \in 1..Len(configs') :
                         CopiedFrom(hydrated'.commands[i], configs'[i])]_vars

\* A config of type "toString" came back as a command whose handler is not a
\* function, with no error.
C20_InheritedKeyHydrated ==
    /\ Len(configs) = 1
    /\ configs[1].handlerConfig.type = "toString"
    /\ ~hydrated.threw
    /\ Len(hydrated.commands) = 1
    /\ ~hydrated.commands[1].handler.callable

(***************************************************************************)
(* State machine: scoreTokenAgainstCandidate is called on a token and a    *)
(* candidate string.                                                       *)
(***************************************************************************)
MaxTokenLen == 2
MaxCandidateLen == 4

\* No commands array, no index and no searchCommands call.
SearchIdle ==
    /\ commands = <<>>
    /\ indexedCommands = <<>>
    /\ call = NoCall
    /\ result = <<>>
    /\ pc = "start"
    /\ defaultWeights = DEFAULT_WEIGHTS
    /\ first = <<>>

\* The strings of at most n characters over chars.
StringsUpTo(chars, n) == UNION {[1..k -> chars] : k \in 0..n}

ScoreTokens == StringsUpTo({"a", "b"}, MaxTokenLen)
ScoreCandidates == StringsUpTo({"a", "b", "c"}, MaxCandidateLen)
ScoreWeightOverrides ==
    { NoOverride,
      [prefixScore |-> Rat(1, 2), substringScore |-> Rat(3, 1),
       maxSubsequenceScore |-> Rat(2, 1)] }

\* The arguments of one call; the value is absent until the call returns.
InitScore ==
    /\ SearchIdle
    /\ HookIdle
    /\ HydrateIdle
    /\ \E token \in ScoreTokens, candidate \in ScoreCandidates,
          override \in ScoreWeightOverrides :
           scored = [token |-> token, candidate |-> candidate,
                     weights |-> MergeWeights(override), score |-> <<>>]
    /\ UnscoredIdle

ScoreTokenAgainstCandidate ==
    /\ scored.score = <<>>
    /\ scored' = [scored EXCEPT !.score =
                      <<scoreTokenAgainstCandidate(scored.token, scored.candidate,
                                                   scored.weights)>>]
    /\ UNCHANGED <<searchVars, defaultWeights, first, hookVars, hydrateVars, focused,
                   alternateLanes,
                   givenCommands, trapVars,
                   toastVars>>

NextScore == ScoreTokenAgainstCandidate

SpecScore == InitScore /\ [][NextScore]_vars

\* The characters of token occur in candidate in order, not necessarily adjacent.
OccursInOrder(token, candidate) ==
    \E at \in [1..Len(token) -> 1..Len(candidate)] :
        /\ \A k \in 1..Len(token) : candidate[at[k]] = token[k]
        /\ \A k \in 1..(Len(token) - 1) : at[k] < at[k + 1]

\* The 0-based position of the first occurrence of char in text.
FirstOccurrence(char, text) ==
    (CHOOSE i \in 1..Len(text) :
        text[i] = char /\ \A j \in 1..(i - 1) : text[j] # char) - 1

\* The subsequence fallback decided the last score and gave a non-zero value.
FallbackMatched ==
    /\ scored # NotScored
    /\ scored.score # <<>>
    /\ scored.token # <<>>
    /\ ~includes(scored.candidate, scored.token)
    /\ OccursInOrder(scored.token, scored.candidate)

\* C21: scoreTokenAgainstCandidate applies its rules in a fixed order and the
\* first that matches decides: an empty token or an empty field scores 0; a field
\* that starts with the token scores prefixScore; a field that contains the token
\* scores substringScore; otherwise the subsequence fallback gives 0 when the
\* token is longer than the field or is not an in-order subsequence of it, and
\* maxSubsequenceScore * (1 - firstMatchIndex / length(field)) otherwise, where
\* firstMatchIndex is the position of the first occurrence of the token's first
\* character.
C21_RuleOrder ==
    (scored # NotScored /\ scored.score # <<>>) =>
        LET token == scored.token
            field == scored.candidate
            weights == scored.weights
        IN  scored.score[1] =
                IF token = <<>> \/ field = <<>> THEN RInt(0)
                ELSE IF startsWith(field, token) THEN weights.prefixScore
                ELSE IF includes(field, token) THEN weights.substringScore
                ELSE IF Len(token) > Len(field) \/ ~OccursInOrder(token, field)
                     THEN RInt(0)
                ELSE RMul(weights.maxSubsequenceScore,
                          RSub(RInt(1),
                               Rat(FirstOccurrence(token[1], field), Len(field))))

\* The fallback scored a token whose first character is not at the start of the
\* field, under overridden weights.
C21_Witness ==
    /\ FallbackMatched
    /\ FirstOccurrence(scored.token[1], scored.candidate) > 0
    /\ scored.weights.maxSubsequenceScore = Rat(2, 1)
    /\ RLess(RInt(0), scored.score[1])
    /\ RLess(scored.score[1], scored.weights.maxSubsequenceScore)

\* The substring rule decided although the token is also a subsequence, and the
\* prefix rule decided although the token is also a substring.
C21_WitnessEarlierRule ==
    /\ scored # NotScored
    /\ scored.token # <<>>
    /\ includes(scored.candidate, scored.token)
    /\ ~startsWith(scored.candidate, scored.token)
    /\ scored.score = <<scored.weights.substringScore>>

(***************************************************************************)
(* State machine: a caller caches the index of its commands, may go on to  *)
(* another commands array while keeping the cached index, and calls        *)
(* searchCommands once.                                                    *)
(***************************************************************************)
IndexedQueries == {<<>>, <<" ">>, <<"a">>, <<"a", " ", "B">>, <<"c">>}

InitIndexed ==
    /\ commands \in CommandLists
    /\ indexedCommands = <<>>
    /\ call = NoCall
    /\ result = <<>>
    /\ pc = "start"
    /\ NotSearchIdle

\* The caller's commands become another array; a cached index stays as it is.
ReplaceCommands(next) ==
    /\ pc = "start"
    /\ indexedCommands # <<>>
    /\ next # commands
    /\ commands' = next
    /\ UNCHANGED <<indexedCommands, call, result, pc>>
    /\ UNCHANGED notSearch

NextIndexed ==
    \/ BuildIndex
    \/ \E next \in CommandLists : ReplaceCommands(next)
    \/ \E query \in IndexedQueries, limit \in Limits, weights \in WeightOverrides :
          SearchCommands(query, limit, weights)

SpecIndexed == InitIndexed /\ [][NextIndexed]_vars

\* The call was given an index.
IndexSupplied == indexedCommands # <<>>

\* C22: supplying a precomputed index is only an optimization: for every query,
\* limit and weights, a call given buildCommandIndex of its commands returns the
\* list the call returns with no index supplied.
C22_IndexIsOptimization ==
    (Returned /\ IndexSupplied /\ IndexIsCurrent) =>
        result = searchCommands(call.query, commands, call.limit,
                                [indexedCommands |-> <<>>,
                                 weights |-> call.weights]).results

\* A call given the index of its commands and a limit returned a scored match
\* and left another match out.
C22_Witness ==
    /\ Returned
    /\ IndexSupplied
    /\ IndexIsCurrent
    /\ call.limit = <<1>>
    /\ Len(result) = 1
    /\ RLess(RInt(0), result[1].score)
    /\ \E i \in 1..Len(commands) :
          /\ commands[i] # result[1].command
          /\ RLess(RInt(0), QueryScore(commands[i]))

Elements(elems) == {elems[i] : i \in 1..Len(elems)}
IndexedElements == {indexedCommands[1][i].command : i \in 1..Len(indexedCommands[1])}

\* C23 as stated: every command in a returned list is an element of the commands
\* argument of that call, for empty and non-empty queries alike, also when an
\* index is supplied, whatever command set that index was built from.
C23_ResultsFromCommands ==
    Returned => \A i \in 1..Len(result) : result[i].command \in Elements(commands)

\* C23: every command in a returned list is an element of the commands argument
\* when the query is empty, when no index is supplied, or when the supplied index
\* is the index of those commands; a non-empty query with any other index
\* returns commands of the index.
C23_ResultsFromCommandsOrIndex ==
    Returned =>
        \A i \in 1..Len(result) :
            /\ (NormalizedQuery = <<>> \/ ~IndexSupplied \/ IndexIsCurrent) =>
                    result[i].command \in Elements(commands)
            /\ (NormalizedQuery # <<>> /\ IndexSupplied) =>
                    result[i].command \in IndexedElements

\* A non-empty query with the index of another command set returned a command
\* that is not among the call's commands.
C23_Witness ==
    /\ Returned
    /\ IndexSupplied
    /\ ~IndexIsCurrent
    /\ NormalizedQuery # <<>>
    /\ \E i \in 1..Len(result) : result[i].command \notin Elements(commands)

\* An empty query with the index of another command set returned the call's
\* commands.
C23_WitnessEmptyQuery ==
    /\ Returned
    /\ IndexSupplied
    /\ ~IndexIsCurrent
    /\ NormalizedQuery = <<>>
    /\ Len(result) > 0
    /\ Elements(commands) \cap IndexedElements = {}

(***************************************************************************)
(* The active index the hook exposes                                       *)
(***************************************************************************)
\* C24: after any sequence of open, close, toggle, setQuery, moveActive,
\* executions and changes of the commands list, the exposed activeIndex is valid
\* for the exposed results: at least 0 and below results.length when results is
\* non-empty, 0 when it is empty; setQuery always puts it back to 0.
C24_ActiveIndexValid ==
    /\ resultsMemo = <<>> => safeActiveIndex = 0
    /\ resultsMemo # <<>> => safeActiveIndex \in 0..(Len(resultsMemo) - 1)
    /\ op.name = "setQuery" =>
           /\ nextIndex = 0
           /\ batch.calls = 0 => safeActiveIndex = 0

\* The commands list changed under a selection that lies past the end of the new
\* results, and the exposed index is still inside them.
C24_Witness ==
    /\ op.name = "setCommands"
    /\ resultsMemo # <<>>
    /\ activeIndex >= Len(resultsMemo)
    /\ safeActiveIndex < Len(resultsMemo)

\* setQuery was called while another result than the first was active.
C24_WitnessSetQuery ==
    /\ op.name = "setQuery"
    /\ op.prevIndex > 0
    /\ batch.applied = 1
    /\ resultsMemo # <<>>
    /\ safeActiveIndex = 0

(***************************************************************************)
(* Operations that have nothing to act on                                  *)
(***************************************************************************)
\* If the step is a call of `name`, it made no call of its own and left the
\* query and activeIndex states as they were.
NoOpStep(name) ==
    (CallStep /\ op'.name = name) =>
        /\ trace' = <<>>
        /\ nextQuery' = nextQuery
        /\ nextIndex' = nextIndex

\* C25: while isOpen is false results is empty, and onKeyDown, moveActive,
\* executeActive and executeById run no handler, call neither onExecute nor
\* onOpenChange and leave query and activeIndex unchanged; while open,
\* executeActive with empty results and executeById with an unknown id do the
\* same.
C25_NothingToActOn ==
    [][/\ ~isOpen => resultsMemo = <<>>
       /\ ~isOpen' => resultsMemo' = <<>>
       /\ ~isOpen =>
              /\ NoOpStep("onKeyDown")
              /\ NoOpStep("moveActive")
              /\ NoOpStep("executeActive")
              /\ NoOpStep("executeById")
       /\ (isOpen /\ resultsMemo = <<>>) => NoOpStep("executeActive")
       /\ (isOpen /\ Find(commands, op'.id) = <<>>) => NoOpStep("executeById")]_vars

\* executeById was called with the id of a command while the palette was closed
\* over a typed query, and nothing ran.
C25_Witness ==
    /\ ~isOpen
    /\ op.name = "executeById"
    /\ Find(commands, op.id) # <<>>
    /\ queryState # <<>>
    /\ op.prevQuery = queryState
    /\ trace = <<>>

\* executeActive was called on an open palette whose query matches nothing.
C25_WitnessOpen ==
    /\ isOpen
    /\ op.name = "executeActive"
    /\ queryState # <<>>
    /\ resultsMemo = <<>>
    /\ trace = <<>>

(***************************************************************************)
(* Registered handler factories                                            *)
(***************************************************************************)
\* The step is a hydrateCommands call that returned.
HydratedStep == lastRegistered' = lastRegistered /\ ~hydrated'.threw

\* C27: after registerHandler(type, factory), every later hydrateCommands call
\* builds the handlers of that type with factory, also for the built-in type
\* "toast"; commands hydrated before the registration keep their handler.
C27_LatestFactoryUsed ==
    [][/\ lastRegistered' # lastRegistered => hydrated' = hydrated
       /\ HydratedStep =>
              \A i \in 1..Len(hydrated'.commands) :
                  LET type == configs'[i].handlerConfig.type
                  IN  type \in DOMAIN lastRegistered =>
                          /\ hydrated'.commands[i].handler.callable
                          /\ hydrated'.commands[i].handler.factory
                                 = lastRegistered[type]]_vars

\* "toast" was registered twice, and a later call hydrated a toast command with
\* the second factory.
C27_Witness ==
    /\ "toast" \in DOMAIN lastRegistered
    /\ handlerRegistry["toast"] = "otherFactory"
    /\ ~hydrated.threw
    /\ \E i \in 1..Len(hydrated.commands) :
          /\ configs[i].handlerConfig.type = "toast"
          /\ hydrated.commands[i].handler.factory = "otherFactory"

\* A toast command hydrated with the built-in factory is still held after
\* "toast" was registered anew.
C27_WitnessKept ==
    /\ "toast" \in DOMAIN lastRegistered
    /\ ~hydrated.threw
    /\ \E i \in 1..Len(hydrated.commands) :
          /\ configs[i].handlerConfig.type = "toast"
          /\ hydrated.commands[i].handler.factory = "toastFactory"

(***************************************************************************)
(* The legacy search of command-palette/utils/fuzzy.ts. Its normalize is   *)
(* the normalize above; scores are exact rationals.                        *)
(***************************************************************************)
RMin(x, y) == IF RLess(y, x) THEN y ELSE x
RMax(x, y) == IF RLess(x, y) THEN y ELSE x

\* candidate.indexOf(char, from): 0-based, -1 when char does not occur at or
\* after from.
RECURSIVE indexOf(_, _, _)
indexOf(candidate, char, from) ==
    IF from >= Len(candidate) THEN -1
    ELSE IF candidate[from + 1] = char THEN from
    ELSE indexOf(candidate, char, from + 1)

\* The first loop of the legacy scoreSubsequence: the positions matched so far,
\* or <<-1>> once a query character is not found.
RECURSIVE fuzzy_Matches(_, _, _, _, _)
fuzzy_Matches(query, candidate, queryIdx, candidateIdx, matches) ==
    IF queryIdx >= Len(query) THEN matches
    ELSE LET foundIdx == indexOf(candidate, query[queryIdx + 1], candidateIdx)
         IN  IF foundIdx = -1 THEN <<-1>>
             ELSE fuzzy_Matches(query, candidate, queryIdx + 1, foundIdx + 1,
                                Append(matches, foundIdx))

\* The second loop: the length of the streak the matches end with.
RECURSIVE fuzzy_ConsecutiveCount(_, _, _)
fuzzy_ConsecutiveCount(matches, i, consecutiveCount) ==
    IF i >= Len(matches) THEN consecutiveCount
    ELSE fuzzy_ConsecutiveCount(matches, i + 1,
                                IF matches[i + 1] - matches[i] <= 2
                                THEN consecutiveCount + 1 ELSE 1)

fuzzy_scoreSubsequence(query, candidate) ==
    LET queryLen == Len(query)
        candidateLen == Len(candidate)
    IN  IF queryLen = 0 THEN RInt(0)
        ELSE IF queryLen > candidateLen THEN RInt(0)
        ELSE LET matches == fuzzy_Matches(query, candidate, 0, 0, <<>>)
             IN  IF matches = <<-1>> THEN RInt(0)
                 ELSE LET baseScore ==
                              RMax(RInt(0),
                                   RSub(RInt(1), Rat(2 * matches[1], candidateLen)))
                          contiguityBonus ==
                              RMul(Rat(fuzzy_ConsecutiveCount(matches, 1, 1), queryLen),
                                   Rat(2, 10))
                          lengthBonus ==
                              IF queryLen = candidateLen THEN Rat(3, 10)
                              ELSE RMin(Rat(1, 10),
                                        RMul(Rat(queryLen, candidateLen), Rat(1, 10)))
                      IN  RMin(RInt(1),
                               RAdd(RAdd(baseScore, contiguityBonus), lengthBonus))

fuzzy_score(query, titleCandidate, keywordCandidate) ==
    IF query = <<>> THEN RInt(0)
    ELSE RAdd(RMul(fuzzy_scoreSubsequence(query, titleCandidate), Rat(7, 10)),
              RMul(fuzzy_scoreSubsequence(query, keywordCandidate), Rat(3, 10)))

fuzzy_buildCommandIndex(cmds) ==
    [i \in 1..Len(cmds) |->
        [command |-> cmds[i],
         normalizedTitle |-> normalize(cmds[i].title),
         normalizedKeywords |-> normalize(JoinSpace(cmds[i].keywords)),
         normalizedHaystack |-> normalize(cmds[i].title) \o <<" ">>
                                \o normalize(JoinSpace(cmds[i].keywords))]]

\* The legacy searchCommands sorting a copy of the array on an empty query.
fuzzy_EmptyQueryPath_Copy(cmds, limit) ==
    LET sorted == ArraySortById(SpreadCopy(CallerArray(cmds)))
        sliced == SliceLimit(sorted.elems, limit)
    IN  [results |-> [i \in 1..Len(sliced) |-> ZeroScored(sliced[i])],
         commandsAfter |-> IF sorted.ref = "caller" THEN sorted.elems ELSE cmds]

\* commands.sort(byId).slice(0, limit).map(...): the sort is applied to the
\* caller's array itself.
fuzzy_EmptyQueryPath(cmds, limit) ==
    LET sorted == ArraySortById(CallerArray(cmds))
        sliced == SliceLimit(sorted.elems, limit)
    IN  [results |-> [i \in 1..Len(sliced) |-> ZeroScored(sliced[i])],
         commandsAfter |-> IF sorted.ref = "caller" THEN sorted.elems ELSE cmds]

\* The non-empty path: map and filter build fresh arrays before the sort.
fuzzy_NonEmptyQueryPath(normalizedQuery, cmds, limit) ==
    LET index == fuzzy_buildCommandIndex(cmds)
        scoredAll == [i \in 1..Len(index) |->
                        [command |-> index[i].command,
                         score |-> fuzzy_score(normalizedQuery,
                                               index[i].normalizedTitle,
                                               index[i].normalizedKeywords)]]
        results == SortResults(SelectSeq(scoredAll, PositiveScore))
    IN  [results |-> IF limit # <<>> THEN SliceLimit(results, limit) ELSE results,
         commandsAfter |-> cmds]

fuzzy_searchCommands(query, cmds, limit) ==
    LET normalizedQuery == normalize(query)
    IN  IF normalizedQuery = <<>>
        THEN fuzzy_EmptyQueryPath(cmds, limit)
        ELSE fuzzy_NonEmptyQueryPath(normalizedQuery, cmds, limit)

(***************************************************************************)
(* State machine: a caller holds a commands array and calls the legacy     *)
(* searchCommands once.                                                    *)
(***************************************************************************)
InitLegacy ==
    /\ commands \in CommandLists
    /\ indexedCommands = <<>>
    /\ call = NoCall
    /\ result = <<>>
    /\ pc = "start"
    /\ NotSearchIdle

LegacySearchCommands(query, limit) ==
    /\ pc = "start"
    /\ LET out == fuzzy_searchCommands(query, commands, limit)
       IN  /\ result' = out.results
           /\ commands' = out.commandsAfter
    /\ call' = [query |-> query, limit |-> limit, weights |-> NoOverride]
    /\ givenCommands' = <<commands>>
    /\ pc' = "returned"
    /\ UNCHANGED <<indexedCommands, defaultWeights, first, hookVars, hydrateVars,
                   scored, focused, alternateLanes, trapVars, toastVars>>

NextLegacy ==
    \E query \in Queries, limit \in Limits : LegacySearchCommands(query, limit)

SpecLegacy == InitLegacy /\ [][NextLegacy]_vars

\* C28: the legacy searchCommands sorts the caller's commands array in place
\* when the query is empty or whitespace only: after such a call the caller's
\* own array is in ascending id order; a call with a non-empty query leaves the
\* array's order unchanged.
C28_LegacySortsInPlace ==
    Returned =>
        IF NormalizedQuery = <<>>
        THEN /\ IdsAscending(Ids(commands))
             /\ commands = SortById(givenCommands[1])
        ELSE commands = givenCommands[1]

\* A whitespace-only query with limit 0 returned nothing and left the caller's
\* array, which was out of id order, sorted.
C28_Witness ==
    /\ Returned
    /\ call.query # <<>>
    /\ NormalizedQuery = <<>>
    /\ call.limit = <<0>>
    /\ result = <<>>
    /\ ~IdsAscending(Ids(givenCommands[1]))
    /\ IdsAscending(Ids(commands))

\* A non-empty query returned two matches in another order than the caller's
\* array, which is as it was.
C28_WitnessNonEmpty ==
    /\ Returned
    /\ NormalizedQuery # <<>>
    /\ Len(result) = 2
    /\ result[1].command = commands[2]
    /\ ~IdsAscending(Ids(commands))
    /\ commands = givenCommands[1]

(***************************************************************************)
(* The focus trap of activateFocusTrap. An element is its tag and the      *)
(* attributes the trap reads; tabindex is "" when the attribute is absent. *)
(* The trap is activated on a container, moves the focus into it in a      *)
(* microtask, listens to keydown until its cleanup function is called, and *)
(* then gives the focus back.                                              *)
(***************************************************************************)
MaxElements == 3

Element(tag, disabled, ariaHidden, tabindex, role) ==
    [tag |-> tag, disabled |-> disabled, ariaHidden |-> ariaHidden,
     tabindex |-> tabindex, role |-> role]

\* The search input, a result-option button, the Close button, a disabled
\* button, a button hidden from assistive technology, a div made tabbable, and a
\* link.
ElementPool ==
    { Element("input", FALSE, "", "", "combobox"),
      Element("button", FALSE, "", "-1", "option"),
      Element("button", FALSE, "", "", ""),
      Element("button", TRUE, "", "", ""),
      Element("button", FALSE, "true", "", ""),
      Element("div", FALSE, "", "0", ""),
      Element("a[href]", FALSE, "false", "", "") }

Containers == SeqsUpTo(ElementPool, MaxElements)

\* The selector list of getFocusable.
MatchesSelectors(el) ==
    \/ el.tag = "a[href]"
    \/ el.tag \in {"button", "input", "select", "textarea"} /\ ~el.disabled
    \/ el.tabindex # "" /\ el.tabindex # "-1"

\* getFocusable without the tabindex filter.
getFocusable_NoTabindexFilter(elems) ==
    LET Keep(i) == /\ MatchesSelectors(elems[i])
                   /\ ~elems[i].disabled
                   /\ elems[i].ariaHidden # "true"
    IN  SelectSeq([i \in 1..Len(elems) |-> i], Keep)

\* getFocusable(): the positions of the tabbable elements, in DOM order.
getFocusable(elems) ==
    LET Keep(i) == /\ MatchesSelectors(elems[i])
                   /\ ~elems[i].disabled
                   /\ elems[i].ariaHidden # "true"
                   /\ elems[i].tabindex # "-1"
    IN  SelectSeq([i \in 1..Len(elems) |-> i], Keep)

\* What the trap's keydown listener does: whether it called preventDefault and
\* onEscape, and the element it focused (0: none).
TrapResult(prevented, escaped, focus) ==
    [defaultPrevented |-> prevented, escaped |-> escaped, focus |-> focus]

\* The listener on a keydown while document.activeElement is `active`: 0 stands
\* for an element outside the container (container.contains(active) is false),
\* -1 for the container itself, which it contains.
trap_onKeyDown(key, shiftKey, elems, active) ==
    IF key = "Escape" THEN TrapResult(FALSE, TRUE, 0)
    ELSE IF key # "Tab" THEN TrapResult(FALSE, FALSE, 0)
    ELSE LET focusables == getFocusable(elems)
         IN  IF Len(focusables) = 0 THEN TrapResult(TRUE, FALSE, 0)
             ELSE LET firstEl == focusables[1]
                      lastEl == focusables[Len(focusables)]
                  IN  IF shiftKey
                      THEN IF active = firstEl \/ active = 0
                           THEN TrapResult(TRUE, FALSE, lastEl)
                           ELSE TrapResult(FALSE, FALSE, 0)
                      ELSE IF active = lastEl \/ active = 0
                           THEN TrapResult(TRUE, FALSE, firstEl)
                           ELSE TrapResult(FALSE, FALSE, 0)

\* focusFirst(): the first focusable element, or the container itself.
focusFirst(elems) ==
    LET focusables == getFocusable(elems)
    IN  IF Len(focusables) > 0 THEN focusables[1] ELSE -1

\* if (!container.hasAttribute("tabindex")) container.setAttribute("tabindex", "-1")
EnsureTabindex(tabindex) == IF tabindex = "" THEN "-1" ELSE tabindex

\* The elements the browser's own Tab handling stops at, and those a click or
\* focus() can focus.
BrowserTabbable(el) ==
    /\ ~el.disabled
    /\ el.tag \in {"a[href]", "button", "input", "select", "textarea"} \/ el.tabindex # ""
    /\ el.tabindex # "-1"
BrowserFocusable(el) ==
    /\ ~el.disabled
    /\ el.tag \in {"a[href]", "button", "input", "select", "textarea"} \/ el.tabindex # ""

\* The browser's default action for Tab from the container or from inside it:
\* the next or previous tabbable element in DOM order, the container itself
\* when it is a tab stop before its elements, or out of the container.
DefaultTab(shiftKey, elems, active, tabindex) ==
    LET stops == {i \in 1..Len(elems) :
                     /\ BrowserTabbable(elems[i])
                     /\ IF shiftKey THEN i < active ELSE i > active}
    IN  IF stops = {}
        THEN IF shiftKey /\ active > 0 /\ tabindex \notin {"", "-1"} THEN -1 ELSE 0
        ELSE IF shiftKey THEN CHOOSE i \in stops : \A j \in stops : j <= i
        ELSE CHOOSE i \in stops : \A j \in stops : i <= j

\* Where a Tab from outside the container may take the focus when nothing
\* prevents it: another element outside, or into the container at its near end.
DefaultTabFromOutside(shiftKey, elems, tabindex) ==
    LET stops == {i \in 1..Len(elems) : BrowserTabbable(elems[i])}
    IN  {0} \cup (IF shiftKey
                  THEN IF stops # {} THEN {CHOOSE i \in stops : \A j \in stops : j <= i}
                       ELSE IF tabindex \notin {"", "-1"} THEN {-1} ELSE {}
                  ELSE IF tabindex \notin {"", "-1"} THEN {-1}
                       ELSE IF stops # {}
                       THEN {CHOOSE i \in stops : \A j \in stops : i <= j}
                       ELSE {})

TrapKeys == {"Tab", "Escape", "a"}
ContainerTabindexes == {"", "0"}

\* A container is on the page with the focus outside it; no trap yet.
InitTrap ==
    /\ SearchIdle
    /\ HookIdle
    /\ HydrateIdle
    /\ scored = NotScored
    /\ focused = "outside"
    /\ alternateLanes = FALSE
    /\ givenCommands = <<>>
    /\ container \in Containers
    /\ activeElement = 0
    /\ keyEvent = <<>>
    /\ trapActive = FALSE
    /\ focusFirstQueued = FALSE
    /\ previouslyFocused = 0
    /\ containerTabindex \in ContainerTabindexes
    /\ ToastIdle

notTrap ==
    <<searchVars, defaultWeights, first, hookVars, hydrateVars, scored, focused, alternateLanes,
      givenCommands, toastVars>>

\* activateFocusTrap(container): the focused element is remembered, the
\* container is made focusable, focusFirst is queued as a microtask and the
\* keydown listener is added.
ActivateFocusTrap ==
    /\ ~trapActive
    /\ previouslyFocused' = activeElement
    /\ containerTabindex' = EnsureTabindex(containerTabindex)
    /\ focusFirstQueued' = TRUE
    /\ trapActive' = TRUE
    /\ keyEvent' = <<>>
    /\ UNCHANGED <<container, activeElement, notTrap>>

\* The queued microtask runs focusFirst.
FocusFirst ==
    /\ focusFirstQueued
    /\ focusFirstQueued' = FALSE
    /\ activeElement' = focusFirst(container)
    /\ keyEvent' = <<>>
    /\ UNCHANGED <<container, trapActive, previouslyFocused, containerTabindex, notTrap>>

\* A keydown is dispatched, after the microtasks: the trap's listener runs if
\* it is on the document, and the browser's default action follows unless the
\* listener prevented it.
TrapKeyDown(key, shiftKey) ==
    /\ key \in TrapKeys
    /\ ~focusFirstQueued
    /\ LET did == IF trapActive
                  THEN trap_onKeyDown(key, shiftKey, container, activeElement)
                  ELSE TrapResult(FALSE, FALSE, 0)
       IN  /\ keyEvent' = <<[key |-> key, shiftKey |-> shiftKey, from |-> activeElement,
                              trapped |-> trapActive,
                              defaultPrevented |-> did.defaultPrevented,
                              escaped |-> did.escaped]>>
           /\ activeElement' \in
                  IF did.focus # 0 THEN {did.focus}
                  ELSE IF key = "Tab" /\ ~did.defaultPrevented
                  THEN IF activeElement = 0
                       THEN DefaultTabFromOutside(shiftKey, container, containerTabindex)
                       ELSE {DefaultTab(shiftKey, container, activeElement,
                                        containerTabindex)}
                  ELSE {activeElement}
    /\ UNCHANGED <<container, trapActive, focusFirstQueued, previouslyFocused,
                   containerTabindex, notTrap>>

\* A click or a focus() call moves the focus to an element, to the container
\* when it has a tabindex, or out of the container.
FocusElement(i) ==
    /\ i \in -1..Len(container)
    /\ i # activeElement
    /\ i > 0 => BrowserFocusable(container[i])
    /\ i = -1 => containerTabindex # ""
    /\ activeElement' = i
    /\ keyEvent' = <<>>
    /\ UNCHANGED <<container, trapActive, focusFirstQueued, previouslyFocused,
                   containerTabindex, notTrap>>

\* The cleanup function activateFocusTrap returned: the listener is removed
\* and the focus goes back to the element focused before the activation. When
\* that was outside the container it was either a focusable element, which
\* takes the focus, or document.body, whose focus() changes nothing.
DeactivateFocusTrap ==
    /\ trapActive
    /\ trapActive' = FALSE
    /\ activeElement' \in
           IF previouslyFocused = 0 THEN {0, activeElement} ELSE {previouslyFocused}
    /\ keyEvent' = <<>>
    /\ UNCHANGED <<container, focusFirstQueued, previouslyFocused, containerTabindex,
                   notTrap>>

NextTrap ==
    \/ ActivateFocusTrap
    \/ FocusFirst
    \/ \E key \in TrapKeys :
          \E shiftKey \in IF key = "Tab" THEN BOOLEAN ELSE {FALSE} :
              TrapKeyDown(key, shiftKey)
    \/ \E i \in -1..MaxElements : FocusElement(i)
    \/ DeactivateFocusTrap

SpecTrap == InitTrap /\ [][NextTrap]_vars

\* The positions of the elements that take part in the Tab cycle: those a Tab
\* can stop at that are not disabled, not aria-hidden="true" and not
\* tabindex="-1".
Tabbables ==
    {i \in 1..Len(container) :
        /\ BrowserFocusable(container[i])
        /\ ~container[i].disabled
        /\ container[i].ariaHidden # "true"
        /\ container[i].tabindex # "-1"}
FirstTabbable == CHOOSE i \in Tabbables : \A j \in Tabbables : i <= j
LastTabbable == CHOOSE i \in Tabbables : \A j \in Tabbables : j <= i

\* The last event was a Tab from `position`, pressed while the trap was active.
TabOn(shiftKey, position) ==
    /\ keyEvent # <<>>
    /\ keyEvent[1].trapped
    /\ keyEvent[1].key = "Tab"
    /\ keyEvent[1].shiftKey = shiftKey
    /\ keyEvent[1].from = position

\* C29: with the focus trap active, Tab pressed while the last tabbable element
\* has focus (or while focus is outside the container) moves focus to the first
\* tabbable element, and Shift+Tab on the first (or outside) moves it to the
\* last; the tabbable elements exclude disabled elements, elements with
\* aria-hidden="true" and elements with tabindex="-1", so a wrap never lands on
\* a result-option button.
C29_TabWraps ==
    Tabbables # {} =>
        /\ (TabOn(FALSE, LastTabbable) \/ TabOn(FALSE, 0)) =>
               activeElement = FirstTabbable
        /\ (TabOn(TRUE, FirstTabbable) \/ TabOn(TRUE, 0)) =>
               activeElement = LastTabbable
        /\ (TabOn(FALSE, LastTabbable) \/ TabOn(FALSE, 0)
              \/ TabOn(TRUE, FirstTabbable) \/ TabOn(TRUE, 0)) =>
               /\ keyEvent[1].defaultPrevented
               /\ container[activeElement].role # "option"

\* Tab on the Close button wrapped to the input over a result-option button
\* that lies between them.
C29_Witness ==
    /\ trapActive
    /\ Len(container) = 3
    /\ container[1].tag = "input"
    /\ container[2].role = "option"
    /\ TabOn(FALSE, 3)
    /\ activeElement = 1

\* Shift+Tab from outside the container went to the last tabbable element, past
\* a result-option button at the end of the container.
C29_WitnessShift ==
    /\ trapActive
    /\ Len(container) = 3
    /\ container[3].role = "option"
    /\ TabOn(TRUE, 0)
    /\ activeElement = 2

(***************************************************************************)
(* ToastProvider. A toast id stands for the string generateToastId gives;  *)
(* the timer of a toast is identified by the toast's id. addToast and      *)
(* removeToast change the timer map and the window's timeouts at once and  *)
(* queue an updater of the toasts state. A render runs every queued        *)
(* updater, in call order, on the list rendered last. The render of the    *)
(* updaters queued in a click or key handler (SyncLane) comes at the end   *)
(* of that event; the render of updaters queued in a timeout callback      *)
(* (DefaultLane) comes in a later task, or with the render of an event     *)
(* that comes first.                                                       *)
(***************************************************************************)
DEFAULT_DURATION_MS == 5000
MaxToasts == 2
MaxToastIds == 4
MaxQueued == 2

SyncLane == "sync"
DefaultLane == "default"

\* The provider's toasts as rendered, its timer map, the window's pending
\* timeouts and the queued updaters.
ToastState(list, timers, pending, updates) ==
    [toasts |-> list, timers |-> timers, pending |-> pending, updates |-> updates]

ToastIdsOf(list) == {list[i].id : i \in 1..Len(list)}

\* timersRef.current.delete(id) for each id in ids.
DeleteTimers(timers, ids) == [id \in DOMAIN timers \ ids |-> timers[id]]

\* The ids in ids that have a timer, and the timers they are mapped to.
TimedIds(timers, ids) == ids \cap DOMAIN timers
TimersOf(timers, ids) == {timers[id] : id \in TimedIds(timers, ids)}

\* The updaters passed to setToasts: addToast's, which holds the new toast, and
\* removeToast's, which holds the id to filter out; the lane is the priority
\* of the event the call was made in.
AddUpdate(toast, lane) ==
    [kind |-> "add", id |-> toast.id, toast |-> <<toast>>, lane |-> lane]
RemoveUpdate(id, lane) ==
    [kind |-> "remove", id |-> id, toast |-> <<>>, lane |-> lane]

\* removeToast(id): the filter is queued; the toast's timer is cleared and
\* unregistered before the call returns.
removeToast(st, id, lane) ==
    ToastState(st.toasts,
               DeleteTimers(st.timers, {id}),
               st.pending \ TimersOf(st.timers, {id}),
               Append(st.updates, RemoveUpdate(id, lane)))

\* The setToasts updater of removeToast, run on the list st.toasts:
\* prev.filter((t) => t.id !== id)
FilterOut(st, id) ==
    LET IsOther(t) == t.id # id
    IN  [st EXCEPT !.toasts = SelectSeq(st.toasts, IsOther)]

\* The setToasts updater of addToast dropping the overflow without touching
\* the timers.
DropOverflow_KeepTimers(st, toast, max) ==
    LET next == <<toast>> \o st.toasts
    IN  IF Len(next) > max
        THEN [st EXCEPT !.toasts = SubSeq(next, 1, max)]
        ELSE [st EXCEPT !.toasts = next]

\* The setToasts updater of addToast, run on the list st.toasts: the new toast
\* goes first, and the toasts past maxToasts are dropped with their timers
\* cleared and unregistered.
DropOverflow(st, toast, max) ==
    LET next == <<toast>> \o st.toasts
    IN  IF Len(next) > max
        THEN LET dropped == ToastIdsOf(SubSeq(next, max + 1, Len(next)))
             IN  [st EXCEPT !.toasts = SubSeq(next, 1, max),
                            !.timers = DeleteTimers(st.timers, dropped),
                            !.pending = st.pending \ TimersOf(st.timers, dropped)]
        ELSE [st EXCEPT !.toasts = next]

\* Math.max(0, durationMs ?? defaultDurationMs)
FinalDuration(durationMs) ==
    LET given == IF durationMs = <<>> THEN DEFAULT_DURATION_MS ELSE durationMs[1]
    IN  IF given < 0 THEN 0 ELSE given

\* addToast(message, durationMs) when generateToastId returns id: the updater
\* is queued, then the timeout is set and registered.
addToast(st, message, durationMs, id, lane) ==
    LET trimmed == trim(message)
        finalDuration == FinalDuration(durationMs)
        toast == [id |-> id, message |-> trimmed, durationMs |-> finalDuration]
        updates == Append(st.updates, AddUpdate(toast, lane))
    IN  IF trimmed = <<>> THEN st
        ELSE IF finalDuration > 0
        THEN ToastState(st.toasts,
                        [t \in DOMAIN st.timers \cup {id} |->
                            IF t = id THEN id ELSE st.timers[t]],
                        st.pending \cup {id},
                        updates)
        ELSE ToastState(st.toasts, st.timers, st.pending, updates)

\* One queued updater runs on the list the one before it returned.
RunUpdater(st, update, max) ==
    IF update.kind = "add" THEN DropOverflow(st, update.toast[1], max)
    ELSE FilterOut(st, update.id)

\* The render goes through the queue `rest` in call order.
RECURSIVE ProcessUpdates(_, _, _)
ProcessUpdates(st, rest, max) ==
    IF rest = <<>> THEN st
    ELSE ProcessUpdates(RunUpdater(st, Head(rest), max), Tail(rest), max)

\* The provider renders: every queued updater runs, whatever its lane.
RenderProvider(st, max) ==
    ProcessUpdates([st EXCEPT !.updates = <<>>], st.updates, max)

\* The effect cleanup of the provider: every registered timeout is cleared and
\* the timer map emptied; the state goes with the component.
UnmountProvider(st) ==
    ToastState(<<>>, <<>>,
               st.pending \ TimersOf(st.timers, DOMAIN st.timers), <<>>)

ToastMessages == {<<>>, <<" ">>, <<" ", "m">>}
ToastDurations == {<<>>, <<0>>, <<-1>>, <<1000>>}

Provider == ToastState(toasts, timersRef, pendingTimeouts, toastUpdates)

InitToast ==
    /\ SearchIdle
    /\ HookIdle
    /\ HydrateIdle
    /\ scored = NotScored
    /\ focused = "outside"
    /\ alternateLanes = FALSE
    /\ givenCommands = <<>>
    /\ TrapIdle
    /\ toasts = <<>>
    /\ toastUpdates = <<>>
    /\ toastMounted = TRUE
    /\ timersRef = <<>>
    /\ pendingTimeouts = {}
    /\ issuedIds = {}
    /\ maxToasts \in 1..MaxToasts
    /\ toastEvent = <<>>

\* What happened last: a call (add, dismiss, expire) about toast id, a render or
\* the unmount; the toasts it took off the screen, the ids that had a timer
\* before it and the updaters a render ran.
ToastEvent(name, id, st) ==
    [name |-> name, id |-> id,
     removed |-> ToastIdsOf(toasts) \ ToastIdsOf(st.toasts),
     timed |-> DOMAIN timersRef,
     ran |-> IF name = "render" THEN toastUpdates ELSE <<>>]

\* The provider's state becomes st by the event `name` about toast id.
ProviderBecomes(name, id, st) ==
    /\ toasts' = st.toasts
    /\ timersRef' = st.timers
    /\ pendingTimeouts' = st.pending
    /\ toastUpdates' = st.updates
    /\ toastEvent' = <<ToastEvent(name, id, st)>>

ToastStep(name, id, st) ==
    /\ ProviderBecomes(name, id, st)
    /\ UNCHANGED <<maxToasts, searchVars, defaultWeights, first, hookVars, hydrateVars,
                   scored, focused, alternateLanes, givenCommands, trapVars>>

\* An update of the lane rendered first is queued: a click or key handler has
\* run and its render has not.
SyncPending ==
    \E i \in 1..Len(toastUpdates) : toastUpdates[i].lane = SyncLane

\* addToast is called in a click or key handler (SyncLane) or outside one, as
\* from a timer or a promise (DefaultLane).
AddToast(message, durationMs, lane) ==
    /\ toastMounted
    /\ Cardinality(issuedIds) < MaxToastIds
    /\ Len(toastUpdates) < MaxQueued
    /\ LET id == Cardinality(issuedIds) + 1
       IN  /\ issuedIds' = IF trim(message) = <<>> THEN issuedIds
                            ELSE issuedIds \cup {id}
           /\ ToastStep("add", id, addToast(Provider, message, durationMs, id, lane))
    /\ UNCHANGED toastMounted

\* A click on the dismiss button of a toast on screen.
DismissToast(id) ==
    /\ toastMounted
    /\ id \in ToastIdsOf(toasts)
    /\ Len(toastUpdates) < MaxQueued
    /\ UNCHANGED <<issuedIds, toastMounted>>
    /\ ToastStep("dismiss", id, removeToast(Provider, id, SyncLane))

\* A pending timeout fires and runs removeToast on its toast; a timeout does
\* not fire between a handler and the render of its updates.
ExpireToast(timerId) ==
    /\ toastMounted
    /\ timerId \in pendingTimeouts
    /\ ~SyncPending
    /\ Len(toastUpdates) < MaxQueued
    /\ UNCHANGED <<issuedIds, toastMounted>>
    /\ ToastStep("expire", timerId,
                 removeToast(ToastState(toasts, timersRef,
                                        pendingTimeouts \ {timerId}, toastUpdates),
                             timerId, DefaultLane))

\* The provider renders the queued updates, all of them in one render.
RenderToasts ==
    /\ toastMounted
    /\ toastUpdates # <<>>
    /\ UNCHANGED <<issuedIds, toastMounted>>
    /\ ToastStep("render", 0, RenderProvider(Provider, maxToasts))

\* The provider is unmounted.
UnmountToasts ==
    /\ toastMounted
    /\ toastMounted' = FALSE
    /\ UNCHANGED issuedIds
    /\ ToastStep("unmount", 0, UnmountProvider(Provider))

NextToast ==
    \/ \E message \in ToastMessages, durationMs \in ToastDurations,
          lane \in {SyncLane, DefaultLane} :
          AddToast(message, durationMs, lane)
    \/ \E id \in 1..MaxToastIds : DismissToast(id)
    \/ \E timerId \in 1..MaxToastIds : ExpireToast(timerId)
    \/ RenderToasts
    \/ UnmountToasts

SpecToast == InitToast /\ [][NextToast]_vars

\* The toasts whose addToast updater is queued.
QueuedIds ==
    {toastUpdates[i].id :
        i \in {j \in 1..Len(toastUpdates) : toastUpdates[j].kind = "add"}}

\* The toasts an event took off the screen, and the toast a dismissal or an
\* expiry was about, have no timer registered and no timeout pending.
RemovedHaveNoTimer ==
    toastEvent # <<>> =>
        /\ \A id \in toastEvent[1].removed :
               id \notin DOMAIN timersRef /\ id \notin pendingTimeouts
        /\ toastEvent[1].name \in {"dismiss", "expire"} =>
               toastEvent[1].id \notin DOMAIN timersRef \cup pendingTimeouts

\* C30 as stated: in a ToastProvider with maxToasts >= 1, after any sequence of
\* addToast calls, dismissals and timer expiries, every timer registered in the
\* timer map belongs to a toast that is currently displayed; a toast removed by
\* dismissal, by expiry or by overflow has its timer cancelled and
\* unregistered; at most maxToasts toasts are displayed.
C30_TimersOfDisplayedToasts ==
    /\ DOMAIN timersRef \subseteq ToastIdsOf(toasts)
    /\ pendingTimeouts = TimersOf(timersRef, DOMAIN timersRef)
    /\ RemovedHaveNoTimer
    /\ Len(toasts) <= maxToasts

\* C30 amended: once the provider has rendered the updates the calls queued,
\* every timer registered in the timer map belongs to a toast that is
\* displayed; from addToast's return to that render a registered timer belongs
\* to a displayed toast or to a toast whose addToast update is queued. A toast
\* removed by dismissal, by expiry or by overflow has its timer cancelled and
\* unregistered, and at most maxToasts toasts are displayed.
C30_TimersBelongToToasts ==
    /\ toastUpdates = <<>> => DOMAIN timersRef \subseteq ToastIdsOf(toasts)
    /\ DOMAIN timersRef \subseteq ToastIdsOf(toasts) \cup QueuedIds
    /\ pendingTimeouts = TimersOf(timersRef, DOMAIN timersRef)
    /\ RemovedHaveNoTimer
    /\ Len(toasts) <= maxToasts

\* A render that ran an addToast updater pushed out an older toast whose timer
\* was still pending; every update is rendered and the new toast has its timer.
C30_Witness ==
    /\ toastEvent # <<>>
    /\ toastEvent[1].name = "render"
    /\ \E i \in 1..Len(toastEvent[1].ran) : toastEvent[1].ran[i].kind = "add"
    /\ toastUpdates = <<>>
    /\ Len(toasts) = maxToasts
    /\ \E id \in toastEvent[1].removed : id \in toastEvent[1].timed
    /\ toasts[1].id \in DOMAIN timersRef

\* A toast with a pending timer was dismissed by hand: its timer is gone before
\* the render takes the toast off the screen.
C30_WitnessDismiss ==
    /\ toastEvent # <<>>
    /\ toastEvent[1].name = "dismiss"
    /\ toastEvent[1].id \in toastEvent[1].timed
    /\ toastEvent[1].id \in ToastIdsOf(toasts)
    /\ toastUpdates = <<RemoveUpdate(toastEvent[1].id, SyncLane)>>
    /\ Len(toasts) > 1

\* One render ran the removal a timeout had queued and the addToast a handler
\* queued after it.
C30_WitnessTogether ==
    /\ toastEvent # <<>>
    /\ toastEvent[1].name = "render"
    /\ Len(toastEvent[1].ran) = 2
    /\ toastEvent[1].ran[1] = RemoveUpdate(toastEvent[1].ran[1].id, DefaultLane)
    /\ toastEvent[1].ran[2].kind = "add"
    /\ toastEvent[1].ran[2].lane = SyncLane
    /\ toastEvent[1].ran[1].id \notin ToastIdsOf(toasts)
    /\ toastUpdates = <<>>

\* addToast has returned and the render has not run: the new toast has its
\* timer and is not on the screen yet.
C30_WitnessQueued ==
    /\ toastUpdates # <<>>
    /\ toasts # <<>>
    /\ \E id \in QueuedIds : id \in DOMAIN timersRef /\ id \notin ToastIdsOf(toasts)

(***************************************************************************)
(* State machine: App renders ToastProvider around CommandPalette, holds   *)
(* paletteOpen, and never unmounts either.  CommandPalette hydrates its    *)
(* commands with the provider's addToast as the toast service and calls    *)
(* useCommandPalette on every render, open or closed.  The focus is in the *)
(* search input, on the Close button, or outside the dialog.  A key or a    *)
(* click is one step with the render of the updates it queued: React       *)
(* renders them before the browser dispatches the next event, together     *)
(* with the updates a timeout queued before it.  A timeout only queues its *)
(* update; its render comes in a later task.                               *)
(***************************************************************************)
DEFAULT_MAX_TOASTS == 5
HANDLER_DURATION_MS == 3000
MaxPaletteToasts == 2

PaletteQueries == {<<"a">>, <<"B">>}
InputKeys == {"Escape", "Enter", "ArrowDown", "ArrowUp"}

\* The commandsConfig entry of a command: its handler shows a toast, with a
\* duration of its own when the command has keywords.
PaletteConfig(c) ==
    [id |-> c.id, title |-> c.title, keywords |-> c.keywords,
     shortcut |-> <<>>, description |-> <<>>,
     handlerConfig |-> [type |-> "toast",
                        message |-> <<"r", "a", "n", " ">> \o c.id,
                        duration |-> IF c.keywords = <<>> THEN <<>> ELSE <<1000>>]]
PaletteConfigs(cmds) == [i \in 1..Len(cmds) |-> PaletteConfig(cmds[i])]

\* The handler the toast factory returns, called when generateToastId gives id:
\* context.toast.show(config.message, config.duration ?? 3000), and show is
\* the provider's addToast.
toastHandler(handlerConfig, st, id) ==
    addToast(st, handlerConfig.message,
             IF handlerConfig.duration = <<>> THEN <<HANDLER_DURATION_MS>>
             ELSE handlerConfig.duration,
             id, SyncLane)

\* The handler of the hydrated command with this id.
HandlerOf(id) ==
    LET i == CHOOSE j \in 1..Len(hydrated.commands) : hydrated.commands[j].id = id
    IN  hydrated.commands[i].handler

InitPalette ==
    /\ commands \in HookCommandLists
    /\ indexedCommands = <<buildCommandIndex(commands)>>
    /\ call = NoCall
    /\ result = <<>>
    /\ pc = "start"
    /\ defaultWeights = DEFAULT_WEIGHTS
    /\ first = <<>>
    /\ isOpen = FALSE
    /\ queryState = <<>>
    /\ activeIndex = 0
    /\ onExecute = FALSE
    /\ options = <<DEFAULT_RESULT_LIMIT>>
    /\ resultsMemo = <<>>
    /\ nextQuery = <<>>
    /\ nextIndex = 0
    /\ batch = NoBatch
    /\ op = NoOp
    /\ trace = <<>>
    /\ handlerRegistry = [type \in {"toast"} |-> "toastFactory"]
    /\ configs = PaletteConfigs(commands)
    /\ hydrated = hydrateCommands(configs, handlerRegistry)
    /\ lastRegistered = [type \in {} |-> ""]
    /\ scored = NotScored
    /\ focused = "outside"
    /\ alternateLanes = FALSE
    /\ givenCommands = <<>>
    /\ TrapIdle
    /\ toasts = <<>>
    /\ toastUpdates = <<>>
    /\ toastMounted = TRUE
    /\ timersRef = <<>>
    /\ pendingTimeouts = {}
    /\ issuedIds = {}
    /\ maxToasts = DEFAULT_MAX_TOASTS
    /\ toastEvent = <<>>

\* onOpenChange as CommandPalette passes it: only a call with false reaches
\* onClose, and App's closePalette sets paletteOpen to false.
ClosedBy(calls) == \E i \in 1..Len(calls) : calls[i] = OnOpenChangeCall(FALSE)

\* The ids of the commands whose handler the calls ran.
HandlersRun(calls) ==
    LET IsHandler(c) == c.ev = "handler"
    IN  SelectSeq(calls, IsHandler)

\* The handlers the event ran show their toasts, and the render of the event,
\* if it has one, runs every queued update of the provider, those a timeout
\* queued included. An event runs at most one handler; once MaxPaletteToasts
\* toasts have been shown no further command is run.
ToastsShownBy(calls, renders) ==
    IF HandlersRun(calls) # <<>>
    THEN /\ Cardinality(issuedIds) < MaxPaletteToasts
         /\ LET id == Cardinality(issuedIds) + 1
                handler == HandlerOf(HandlersRun(calls)[1].id)
                called == toastHandler(handler.config, Provider, id)
            IN  /\ issuedIds' = IF called = Provider THEN issuedIds
                                 ELSE issuedIds \cup {id}
                /\ ProviderBecomes("add", id, RenderProvider(called, maxToasts))
         /\ UNCHANGED <<toastMounted, maxToasts>>
    ELSE IF renders /\ toastUpdates # <<>>
    THEN /\ ProviderBecomes("render", 0, RenderProvider(Provider, maxToasts))
         /\ UNCHANGED <<issuedIds, toastMounted, maxToasts>>
    ELSE UNCHANGED toastVars

\* resetState ran, or an arrow key reached moveActive's setActiveIndex: the
\* event called a setter of the hook's state.
SetsHookState(key, after) ==
    \/ \E i \in 1..Len(after.trace) : after.trace[i] = ResetStateCall
    \/ key \in {"ArrowDown", "ArrowUp"} /\ resultsMemo # <<>>

\* An event `name` ran the hook operation that left `after`, calling a setter
\* of the hook's state iff `sets`; the next render shows the palette iff
\* nextOpen. A setter called with the value the state has queues no update
\* while neither fiber of CommandPalette carries a lane; once one is queued,
\* the event's other setter calls are queued as well. A render in which the
\* hook's state changed, or App rendered too, leaves the lane on the fiber it
\* replaces; a render that finds the state as it was clears it, and so does a
\* render of App without an update of the hook. The event has a render when an
\* update of the hook's state or of App's paletteOpen was queued.
PaletteStep(name, id, key, after, nextOpen, sets) ==
    LET hookChanged == \/ after.queryState # queryState
                       \/ after.activeIndex # activeIndex
        queued == sets /\ (alternateLanes \/ hookChanged)
        appRenders == nextOpen # isOpen
    IN  /\ op' = Operation(name, 0, id, key, "return")
        /\ queryState' = after.queryState
        /\ activeIndex' = after.activeIndex
        /\ nextQuery' = after.queryState
        /\ nextIndex' = after.activeIndex
        /\ batch' = [calls |-> 0, applied |-> 1]
        /\ trace' = after.trace
        /\ isOpen' = nextOpen
        /\ resultsMemo' = Render(nextOpen, after.queryState)
        /\ focused' = IF ~nextOpen THEN "outside"
                      ELSE IF ~isOpen THEN "input"
                      ELSE focused
        /\ alternateLanes' = IF queued THEN hookChanged \/ appRenders
                             ELSE IF appRenders THEN FALSE
                             ELSE alternateLanes
        /\ ToastsShownBy(after.trace, queued \/ appRenders)
        /\ UNCHANGED <<onExecute, options, searchVars, defaultWeights, first,
                       hydrateVars, scored, givenCommands, trapVars>>

\* Ctrl+K or Cmd+K reaches the window's keydown listener, which calls App's
\* togglePalette, wherever the focus is.  (The declaration of the hotkey hook
\* with isEditableTarget returns on a keydown whose target is the search input;
\* that key press changes nothing and is no step.)
Hotkey ==
    LET enabled == TRUE     \* App passes enabled: true
    IN  /\ enabled
        /\ PaletteStep("hotkey", <<>>, "k", Unchanged(<<>>), ~isOpen, FALSE)

\* Tab or Shift+Tab while the palette is open. The dialog's tabbable elements
\* are the input, first, and the Close button, last (the option buttons have
\* tabindex -1). The focus trap sends Tab on the last element, and Tab from
\* outside the dialog, to the first; Shift+Tab on the first element, and
\* Shift+Tab from outside, to the last; otherwise the browser moves the focus
\* to the neighbour, which is the other of the two.
TabKey(shiftKey) ==
    /\ isOpen
    /\ op' = Operation("tab", 0, <<>>, "Tab", "return")
    /\ focused' = IF shiftKey
                  THEN IF focused = "close" THEN "input" ELSE "close"
                  ELSE IF focused = "input" THEN "close" ELSE "input"
    /\ trace' = <<>>
    /\ UNCHANGED <<isOpen, queryState, activeIndex, resultsMemo, nextQuery, nextIndex,
                   batch, onExecute, options, searchVars, defaultWeights, first,
                   hydrateVars, scored, alternateLanes, givenCommands, trapVars,
                   toastVars>>

\* The input's onChange.
TypeQuery(next) ==
    /\ isOpen
    /\ focused = "input"
    /\ PaletteStep("type", <<>>, "", setQuery(next), TRUE, TRUE)

\* A key pressed in the input: the hook's onKeyDown; on Escape the focus trap's
\* document listener calls onClose as well.
InputKeyDown(key) ==
    /\ isOpen
    /\ focused = "input"
    /\ LET after == onKeyDown(key, "return")
       IN  PaletteStep("inputKey", <<>>, key, after,
                       ~(ClosedBy(after.trace) \/ key = "Escape"),
                       SetsHookState(key, after))

\* Escape pressed while the focus is not in the input: only the focus trap's
\* listener hears it and calls onClose.
TrapEscape ==
    /\ isOpen
    /\ focused # "input"
    /\ PaletteStep("trapEscape", <<>>, "Escape", Unchanged(<<>>), FALSE, FALSE)

\* The Close button's onClick is onClose.
CloseButton ==
    /\ isOpen
    /\ PaletteStep("closeButton", <<>>, "", Unchanged(<<>>), FALSE, FALSE)

\* A mousedown on the overlay calls onClose.
OverlayMouseDown ==
    /\ isOpen
    /\ PaletteStep("overlay", <<>>, "", Unchanged(<<>>), FALSE, FALSE)

\* A click on the i-th option: executeById of its command.
ClickOption(i) ==
    /\ isOpen
    /\ i \in DOMAIN resultsMemo
    /\ LET after == executeById(resultsMemo[i].command.id, "return")
       IN  PaletteStep("clickOption", resultsMemo[i].command.id, "", after,
                       ~ClosedBy(after.trace), SetsHookState("", after))

\* The timeout of a toast fires: removeToast clears the timer and queues the
\* filter, which waits for a later render.
ToastTimeout(timerId) ==
    /\ timerId \in pendingTimeouts
    /\ ProviderBecomes("expire", timerId,
           removeToast(ToastState(toasts, timersRef,
                                  pendingTimeouts \ {timerId}, toastUpdates),
                       timerId, DefaultLane))
    /\ UNCHANGED <<issuedIds, toastMounted, maxToasts, searchVars, defaultWeights,
                   first, hookVars, hydrateVars, scored, focused, alternateLanes, givenCommands,
                   trapVars>>

\* The render React scheduled for the updates the timeouts queued, when no
\* event's render has run them before.
RenderExpired ==
    /\ toastUpdates # <<>>
    /\ ProviderBecomes("render", 0, RenderProvider(Provider, maxToasts))
    /\ UNCHANGED <<issuedIds, toastMounted, maxToasts, searchVars, defaultWeights,
                   first, hookVars, hydrateVars, scored, focused, alternateLanes, givenCommands,
                   trapVars>>

\* A click on the Dismiss button of a toast on the screen: removeToast, and the
\* provider renders the click's update together with those queued before it.
\* The focus leaves the dialog.
DismissClick(id) ==
    /\ id \in ToastIdsOf(toasts)
    /\ ProviderBecomes("dismiss", id,
           RenderProvider(removeToast(Provider, id, SyncLane), maxToasts))
    /\ focused' = "outside"
    /\ UNCHANGED <<issuedIds, toastMounted, maxToasts, searchVars, defaultWeights,
                   first, hookVars, hydrateVars, scored, alternateLanes, givenCommands,
                   trapVars>>

NextPalette ==
    \/ Hotkey
    \/ \E shiftKey \in BOOLEAN : TabKey(shiftKey)
    \/ \E next \in PaletteQueries : TypeQuery(next)
    \/ \E key \in InputKeys : InputKeyDown(key)
    \/ TrapEscape
    \/ CloseButton
    \/ OverlayMouseDown
    \/ \E i \in 1..3 : ClickOption(i)
    \/ \E timerId \in 1..MaxPaletteToasts : ToastTimeout(timerId)
    \/ RenderExpired
    \/ \E id \in 1..MaxPaletteToasts : DismissClick(id)

SpecPalette == InitPalette /\ [][NextPalette]_vars

\* C26: every time the palette goes from closed to open it starts clean: the
\* query is "" and the active index is 0, whichever way it was closed before
\* (Escape in the input, command execution, the Close button, a click on the
\* overlay, the focus trap's Escape, or the global hotkey toggling it).
C26_OpensClean ==
    [][(~isOpen /\ isOpen') => (queryState' = <<>> /\ safeActiveIndex' = 0)]_vars

\* Enter in the input ran the active command: its toast is on the screen with
\* its timeout pending, and the palette is closed with its state reset.
PaletteEnterShowsToast ==
    /\ op.name = "inputKey"
    /\ op.key = "Enter"
    /\ ~isOpen
    /\ queryState = <<>>
    /\ trace # <<>>
    /\ trace[1].ev = "handler"
    /\ toasts # <<>>
    /\ toasts[1].message = <<"r", "a", "n", " ">> \o trace[1].id
    /\ toasts[1].id \in pendingTimeouts

\* A command was run while the removal queued by a toast's timeout was waiting
\* for its render: the render of the event ran both, and only the new toast is
\* on the screen.
PaletteToastReplacesExpired ==
    /\ trace # <<>>
    /\ trace[1].ev = "handler"
    /\ toastEvent # <<>>
    /\ toastEvent[1].name = "add"
    /\ toastEvent[1].removed # {}
    /\ toastEvent[1].removed \cap toastEvent[1].timed = {}
    /\ Len(toasts) = 1
    /\ toastUpdates = <<>>

\* Shift+Tab with the focus outside the dialog moved it to the Close button.
PaletteShiftTabFromOutside ==
    /\ op.name = "tab"
    /\ isOpen
    /\ focused = "close"

\* Ctrl+K closed the palette while the focus was in the search input, and the
\* typed query is kept.
PaletteHotkeyFromInput ==
    /\ op.name = "hotkey"
    /\ ~isOpen
    /\ queryState # <<>>

\* An arrow key in the input left the active index where it was, on a single
\* result, after the query had been typed: the render of that key press ran
\* the removal a toast's timeout had queued.
PaletteArrowRendersExpired ==
    /\ op.name = "inputKey"
    /\ op.key = "ArrowDown"
    /\ isOpen
    /\ Len(resultsMemo) = 1
    /\ ~alternateLanes
    /\ toastEvent # <<>>
    /\ toastEvent[1].name = "render"
    /\ Len(toastEvent[1].ran) = 1
    /\ toastEvent[1].ran[1].kind = "remove"
    /\ toasts = <<>>

\* An arrow key in the input queued no update, the hook's state having been
\* rendered unchanged before: the removal a timeout queued is still waiting.
PaletteArrowBailsOut ==
    /\ op.name = "inputKey"
    /\ op.key = "ArrowDown"
    /\ isOpen
    /\ Len(resultsMemo) = 1
    /\ toastUpdates # <<>>
    /\ toastUpdates[1].kind = "remove"
    /\ toastUpdates[1].id \in ToastIdsOf(toasts)
====
